---- MODULE Spec2Model ----
(***************************************************************************)
(* A model of vldt's validation core: the type-schema compiler, the        *)
(* recursive validate_and_convert engine, the error collector and the      *)
(* record construction pipeline of DataModel_init.                         *)
(*                                                                         *)
(* Python objects are records [k |-> kind, v |-> payload]; the kind decides *)
(* the payload's shape.  Floats are held in tenths (5.0 is 50).  Strings   *)
(* of the value universe are one character long, so list(s) is <<s>>.      *)
(* Error paths are real strings, built with "." as the code builds them.   *)
(***************************************************************************)
EXTENDS Integers, Sequences, FiniteSets, TLC

VARIABLES
    pc,         \* position of the operation in progress
    cls,        \* the record class being constructed (its declaration)
    kwds,       \* the keyword mapping given to DataModel_init (Nothing when null)
    fi,         \* index of the next field of the field loop
    fields,     \* InstanceData.fields of the instance under construction
    collector,  \* the ErrorCollector of the operation in progress
    exc,        \* the Python error the operation surfaced (NoExc when none)
    log,        \* the stages and validators run so far, in order
    steps,      \* what each iteration of the field loop did, in order
    node,       \* the declared type handed to validate_and_convert
    value,      \* the value handed to validate_and_convert
    registry,   \* the deserializer table handed to validate_and_convert
    before,     \* the collector as it was when validate_and_convert was called
    out,        \* what validate_and_convert returned
    cache,      \* the schema slot of a class and the threads using it
    codec       \* the mapping from_dict was given, and what to_dict and
                \* __deepcopy__ returned for the instance it built

vars == <<pc, cls, kwds, fi, fields, collector, exc, log, steps,
          node, value, registry, before, out, cache, codec>>

-----------------------------------------------------------------------------
(* Bounds of the value universe.                                           *)

MaxLen == 2

\* The longest sequence of add_error calls on one collector.
MaxAdds == 4

\* The threads that use a record class for the first time at once.
NThreads == 3

-----------------------------------------------------------------------------
(* Python values.                                                          *)

None == [k |-> "none", v |-> 0]
VBool(b) == [k |-> "bool", v |-> b]
VInt(n) == [k |-> "int", v |-> n]
VStr(s) == [k |-> "str", v |-> s]
VFloat(t) == [k |-> "float", v |-> t]
VList(s) == [k |-> "list", v |-> s]
VTuple(s) == [k |-> "tuple", v |-> s]
VSet(s) == [k |-> "set", v |-> s]
VDict(s) == [k |-> "dict", v |-> s]
VInst(c, f) == [k |-> "inst", v |-> [cls |-> c, fields |-> f]]

\* What a call leaves when it loads through a null pointer: the process is
\* killed, nothing is returned.
Segfault == [k |-> "segfault", v |-> 0]

\* nullptr, as a returned PyObject*.
Nothing == [k |-> "nothing", v |-> 0]
\* The VLDTUndefined sentinel.
VLDTUndefined == [k |-> "undefined", v |-> 0]

\* A class object, as a value.
VType(name) == [k |-> "type", v |-> name]

\* Py_TYPE(value)->tp_name.
TypeNameOf(x) ==
    CASE x.k = "none" -> "NoneType"
      [] x.k = "inst" -> x.v.cls
      [] x.k = "undefined" -> "vldt.VLDTUndefined"
      [] OTHER -> x.k

IsNumeric(x) == x.k \in {"bool", "int", "float"}

\* The numeric value in tenths, so that 1 == True == 1.0 as in Python.
NumVal(x) ==
    CASE x.k = "bool" -> (IF x.v THEN 10 ELSE 0)
      [] x.k = "int" -> x.v * 10
      [] OTHER -> x.v

\* Python's ==, as dict and set lookups use it.
PyEq(a, b) == IF IsNumeric(a) /\ IsNumeric(b) THEN NumVal(a) = NumVal(b) ELSE a = b

RECURSIVE Hashable(_)
Hashable(x) ==
    CASE x.k \in {"list", "set", "dict"} -> FALSE
      [] x.k = "tuple" -> \A i \in 1..Len(x.v) : Hashable(x.v[i])
      [] OTHER -> TRUE

\* PyObject_IsTrue.
Truthy(x) ==
    CASE x.k = "none" -> FALSE
      [] x.k = "bool" -> x.v
      [] x.k \in {"int", "float"} -> x.v # 0
      [] x.k = "str" -> x.v # ""
      [] x.k \in {"list", "tuple", "set", "dict"} -> Len(x.v) > 0
      [] OTHER -> TRUE

RECURSIVE JoinRepr(_, _)
RECURSIVE JoinReprItems(_, _)
RECURSIVE Repr(_)
\* repr(x); str(x) differs from it for strings only.
Repr(x) ==
    CASE x.k = "none" -> "None"
      [] x.k = "bool" -> (IF x.v THEN "True" ELSE "False")
      [] x.k = "int" -> ToString(x.v)
      [] x.k = "float" -> ToString(x.v \div 10) \o "." \o ToString(x.v % 10)
      [] x.k = "str" -> "'" \o x.v \o "'"
      [] x.k = "list" -> "[" \o JoinRepr(x.v, 1) \o "]"
      [] x.k = "tuple" ->
            "(" \o JoinRepr(x.v, 1) \o (IF Len(x.v) = 1 THEN "," ELSE "") \o ")"
      [] x.k = "set" ->
            IF Len(x.v) = 0 THEN "set()" ELSE "{" \o JoinRepr(x.v, 1) \o "}"
      [] x.k = "dict" -> "{" \o JoinReprItems(x.v, 1) \o "}"
      [] OTHER -> "<" \o TypeNameOf(x) \o " object>"

JoinRepr(s, i) ==
    IF i > Len(s) THEN ""
    ELSE (IF i > 1 THEN ", " ELSE "") \o Repr(s[i]) \o JoinRepr(s, i + 1)

JoinReprItems(s, i) ==
    IF i > Len(s) THEN ""
    ELSE (IF i > 1 THEN ", " ELSE "")
         \o Repr(s[i][1]) \o ": " \o Repr(s[i][2]) \o JoinReprItems(s, i + 1)

\* The decimal digit a one-character string spells, or -1.
DigitVal(s) ==
    CASE s = "0" -> 0 [] s = "1" -> 1 [] s = "2" -> 2 [] s = "3" -> 3
      [] s = "4" -> 4 [] s = "5" -> 5 [] s = "6" -> 6 [] s = "7" -> 7
      [] s = "8" -> 8 [] s = "9" -> 9 [] OTHER -> -1

\* int(x): Nothing when the call raises.
PyInt(x) ==
    CASE x.k = "bool" -> VInt(IF x.v THEN 1 ELSE 0)
      [] x.k = "int" -> x
      [] x.k = "float" -> VInt(x.v \div 10)
      [] x.k = "str" -> (IF DigitVal(x.v) >= 0 THEN VInt(DigitVal(x.v)) ELSE Nothing)
      [] OTHER -> Nothing

\* float(x).
PyFloat(x) ==
    CASE IsNumeric(x) -> VFloat(NumVal(x))
      [] x.k = "str" ->
            (IF DigitVal(x.v) >= 0 THEN VFloat(DigitVal(x.v) * 10) ELSE Nothing)
      [] OTHER -> Nothing

\* str(x): never raises for the values of the model.
PyStr(x) == IF x.k = "str" THEN x ELSE VStr(Repr(x))

\* bool(x).
PyBool(x) == VBool(Truthy(x))

\* The keys of a dict, in insertion order.
DictKeys(d) == [i \in 1..Len(d) |-> d[i][1]]

\* list(x): any iterable; a string yields its characters.
PyList(x) ==
    CASE x.k \in {"list", "tuple", "set"} -> VList(x.v)
      [] x.k = "dict" -> VList(DictKeys(x.v))
      [] x.k = "str" -> VList(IF x.v = "" THEN <<>> ELSE <<VStr(x.v)>>)
      [] OTHER -> Nothing

\* dict(x): a copy of a dict, an empty dict from an empty iterable; the
\* other values of the model are no iterables of pairs.
PyDict(x) ==
    CASE x.k = "dict" -> x
      [] x.k \in {"list", "tuple", "set"} /\ Len(x.v) = 0 -> [k |-> "dict", v |-> <<>>]
      [] OTHER -> Nothing

\* PyDict_GetItem on an insertion-ordered dict payload: Nothing when absent.
DictGet(d, key) ==
    IF \E i \in 1..Len(d) : PyEq(d[i][1], key)
    THEN d[CHOOSE i \in 1..Len(d) : PyEq(d[i][1], key)][2]
    ELSE Nothing

DictHas(d, key) == \E i \in 1..Len(d) : PyEq(d[i][1], key)

\* PyDict_SetItem: an existing key keeps its position (and its key object).
DictSet(d, key, val) ==
    IF DictHas(d, key)
    THEN [i \in 1..Len(d) |-> IF PyEq(d[i][1], key) THEN <<d[i][1], val>> ELSE d[i]]
    ELSE Append(d, <<key, val>>)

\* PySet_Add on a set payload held in iteration order.
SetAdd(s, x) == IF \E i \in 1..Len(s) : PyEq(s[i], x) THEN s ELSE Append(s, x)

-----------------------------------------------------------------------------
(* Declared types: what an annotation is.  A plain type has no __origin__; *)
(* a generic alias has an origin and, usually, a tuple of arguments.       *)

Plain(n) == [name |-> n, origin |-> "none", hasargs |-> FALSE, args |-> <<>>]
Generic(o, a) == [name |-> o, origin |-> o, hasargs |-> TRUE, args |-> a]
BareGeneric(o) == [name |-> o, origin |-> o, hasargs |-> FALSE, args |-> <<>>]

IntType == Plain("int")
StrType == Plain("str")
FloatType == Plain("float")
BoolType == Plain("bool")
ListPlainType == Plain("list")
NoneTypeT == Plain("NoneType")
AnyType == Plain("Any")

\* The record classes of the model, by name (their declarations come below).
ModelNames == {"Inner", "Opt", "Strict", "Pair", "Model", "Node", "Ping", "Pong"}

\* PyType_Check(expected_type): typing constructs are not types.
IsPyType(d) == d.origin = "none" /\ d.name # "Any"

\* PyObject_IsInstance(x, check_type): 1, 0, or -1 when the second argument
\* is no class (typing.Any, typing.Union, typing.Literal raise TypeError).
IsInstanceOfName(x, n) ==
    CASE n \in {"Any", "Union", "Literal"} -> -1
      [] n = "int" -> (IF x.k \in {"int", "bool"} THEN 1 ELSE 0)
      [] OTHER -> (IF TypeNameOf(x) = n THEN 1 ELSE 0)

PyObject_IsInstance(x, d) ==
    IF d.origin = "none" THEN IsInstanceOfName(x, d.name) ELSE -1

-----------------------------------------------------------------------------
(* ErrorCollector: a lazily allocated JSON object, its members in          *)
(* insertion order, each value a string or an array.                       *)

JStr(m) == [t |-> "s", s |-> m, a |-> <<>>]
JArr(items) == [t |-> "a", s |-> "", a |-> items]

\* ErrorCollector(): doc_ is null.
NullDoc == [init |-> FALSE, members |-> <<>>]

lazy_init(c) == [init |-> TRUE, members |-> c.members]

HasMember(c, key) == \E i \in 1..Len(c.members) : c.members[i].key = key

MemberIndex(c, key) == CHOOSE i \in 1..Len(c.members) : c.members[i].key = key

\* The shared tail of add_error and add_suberror: promote to an array and
\* push, or add a member.
PushMember(c, key, val) ==
    IF HasMember(c, key)
    THEN LET i == MemberIndex(c, key)
             existing == c.members[i].val
             arr == IF existing.t = "a" THEN existing ELSE JArr(<<existing>>)
         IN  [c EXCEPT !.members[i].val = JArr(Append(arr.a, val))]
    ELSE [c EXCEPT !.members = Append(@, [key |-> key, val |-> val])]

\* A variant in which a later message replaces the entry of its path; C16
\* tells it apart from add_error.
add_error_overwrite(c, field, message) ==
    IF HasMember(c, field)
    THEN [lazy_init(c) EXCEPT !.members[MemberIndex(c, field)].val = JStr(message)]
    ELSE PushMember(lazy_init(c), field, JStr(message))

add_error(c, field, message) == PushMember(lazy_init(c), field, JStr(message))

\* What an exception's str() carries: free text, or a rendered ErrorTree.
TextMsg(t) == [kind |-> "text", text |-> t, members |-> <<>>]
JsonMsg(m) == [kind |-> "json", text |-> "", members |-> m]

\* rapidjson's Parse of a payload followed by IsObject(): the members of the
\* object, or failure.  "{}" is the one free text of the model that parses.
ParseObject(payload) ==
    CASE payload.kind = "json" -> [ok |-> TRUE, members |-> payload.members]
      [] payload.text = "{}" -> [ok |-> TRUE, members |-> <<>>]
      [] OTHER -> [ok |-> FALSE, members |-> <<>>]

RECURSIVE MergeSub(_, _, _, _)
MergeSub(c, field, members, i) ==
    IF i > Len(members) THEN c
    ELSE MergeSub(PushMember(c, field \o "." \o members[i].key, members[i].val),
                  field, members, i + 1)

\* A variant that records nothing for a payload that does not parse; C24
\* tells it apart from add_suberror.
add_suberror_silent(c, field, json_errors) ==
    LET subdoc == ParseObject(json_errors)
    IN  IF ~subdoc.ok THEN lazy_init(c)
        ELSE MergeSub(lazy_init(c), field, subdoc.members, 1)

add_suberror(c, field, json_errors) ==
    LET subdoc == ParseObject(json_errors)
    IN  IF ~subdoc.ok
        THEN add_error(lazy_init(c), field, "Invalid suberror JSON")
        ELSE MergeSub(lazy_init(c), field, subdoc.members, 1)

has_errors(c) == c.init /\ Len(c.members) > 0

to_json(c) == IF ~c.init THEN TextMsg("") ELSE JsonMsg(c.members)

\* The number of messages a JSON value holds, arrays counted through.
RECURSIVE CountMsgs(_)
RECURSIVE CountMsgsSeq(_, _)
CountMsgs(j) == IF j.t = "s" THEN 1 ELSE CountMsgsSeq(j.a, 1)
CountMsgsSeq(a, i) == IF i > Len(a) THEN 0 ELSE CountMsgs(a[i]) + CountMsgsSeq(a, i + 1)

-----------------------------------------------------------------------------
(* Type schema compiler.                                                   *)

CK_NONE == "CK_NONE"
CK_DICT == "CK_DICT"
CK_LIST == "CK_LIST"
CK_TUPLE == "CK_TUPLE"
CK_SET == "CK_SET"
CK_UNION == "CK_UNION"

\* normalize_origin: the typing aliases of tuple, set and dict become the
\* runtime classes; there is no such branch for typing.List.
normalize_origin(origin) ==
    CASE origin \in {"typing.Tuple", "tuple"} -> "tuple"
      [] origin \in {"typing.Set", "set"} -> "set"
      [] origin = "typing.Dict" -> "dict"
      [] OTHER -> origin

IsDataModelType(d) == IsPyType(d) /\ d.name \in ModelNames

\* A variant that marks no union optional; C12 tells it apart from
\* handle_container_kind.
handle_container_kind_never_optional(origin, args) ==
    LET n == Len(args)
    IN  CASE origin = "Union" -> [container_kind |-> CK_UNION, is_optional |-> FALSE]
          [] origin = "dict" /\ n = 2 -> [container_kind |-> CK_DICT, is_optional |-> FALSE]
          [] origin = "list" /\ n = 1 -> [container_kind |-> CK_LIST, is_optional |-> FALSE]
          [] origin = "tuple" -> [container_kind |-> CK_TUPLE, is_optional |-> FALSE]
          [] origin = "set" -> [container_kind |-> CK_SET, is_optional |-> FALSE]
          [] OTHER -> [container_kind |-> CK_NONE, is_optional |-> FALSE]

\* handle_container_kind, given the normalized origin and the compiled args.
handle_container_kind(origin, args) ==
    LET n == Len(args)
    IN  CASE origin = "Union" ->
               [container_kind |-> CK_UNION,
                is_optional |-> \E i \in 1..n : args[i].expected_type = NoneTypeT]
          [] origin = "dict" /\ n = 2 -> [container_kind |-> CK_DICT, is_optional |-> FALSE]
          [] origin = "list" /\ n = 1 -> [container_kind |-> CK_LIST, is_optional |-> FALSE]
          [] origin = "tuple" -> [container_kind |-> CK_TUPLE, is_optional |-> FALSE]
          [] origin = "set" -> [container_kind |-> CK_SET, is_optional |-> FALSE]
          [] OTHER -> [container_kind |-> CK_NONE, is_optional |-> FALSE]

RECURSIVE compile_type_schema(_)
compile_type_schema(expected_type) ==
    LET base == [expected_type |-> expected_type,
                 origin |-> "none",
                 num_args |-> 0,
                 args |-> <<>>,
                 is_data_model |-> IsDataModelType(expected_type),
                 is_optional |-> FALSE,
                 container_kind |-> CK_NONE]
    IN  IF expected_type.origin = "none"
        THEN base                                          \* handle_no_origin
        ELSE IF ~expected_type.hasargs
        THEN [base EXCEPT !.origin = normalize_origin(expected_type.origin)]
                                                           \* handle_no_args
        ELSE LET origin == normalize_origin(expected_type.origin)
                 args == [i \in 1..Len(expected_type.args) |->
                            compile_type_schema(expected_type.args[i])]
                 ck == handle_container_kind(origin, args)
             IN  [base EXCEPT !.origin = origin,
                              !.num_args = Len(args),
                              !.args = args,
                              !.is_optional = ck.is_optional,
                              !.container_kind = ck.container_kind]

-----------------------------------------------------------------------------
(* User callables (validators, default factories, deserializers): what a   *)
(* call does is part of the declaration.                                   *)

VFunc(mode, msg, ret) == [k |-> "func", v |-> [mode |-> mode, msg |-> msg, ret |-> ret]]

PyCallable_Check(x) == x.k = "func"

\* Calling f on arg: Nothing when it raises.
CallFunc(f, arg) ==
    CASE f.v.mode = "raise" -> Nothing
      [] f.v.mode = "const" -> f.v.ret
      [] OTHER -> arg

\* Exceptions surfaced to the caller.
Exc(kind, msg) == [kind |-> kind, msg |-> msg]
NoExc == Exc("none", TextMsg(""))

-----------------------------------------------------------------------------
(* Deserializer registry.                                                  *)

\* create_deserializers: one entry per (to, from) pair; a non-callable entry
\* makes the whole table null.
create_deserializers(deserializer_dict) ==
    IF \E i \in 1..Len(deserializer_dict) : ~PyCallable_Check(deserializer_dict[i].fn)
    THEN Nothing
    ELSE [k |-> "deserializers", v |-> deserializer_dict]

\* A variant whose lookup also matches an entry registered for a base class
\* of the runtime type (bool is a subclass of int); C20 tells it apart from
\* get_deserializer.
get_deserializer_subtype(deserializers, deserialize_to, deserialize_from) ==
    LET m == deserializers.v
        hit == {i \in 1..Len(m) :
                   /\ m[i].to = deserialize_to
                   /\ \/ m[i].from = deserialize_from
                      \/ (deserialize_from = "bool" /\ m[i].from = "int")}
    IN  IF hit = {} THEN None ELSE m[CHOOSE i \in hit : \A j \in hit : i <= j].fn

\* get_deserializer: exact pair lookup; Py_None when absent.
get_deserializer(deserializers, deserialize_to, deserialize_from) ==
    LET m == deserializers.v
        hit == {i \in 1..Len(m) : m[i].to = deserialize_to /\ m[i].from = deserialize_from}
    IN  IF hit = {} THEN None ELSE m[CHOOSE i \in hit : \A j \in hit : i <= j].fn

-----------------------------------------------------------------------------
(* Record class declarations: what the reflection attributes of a class    *)
(* hold (__vldt_instance_annotations__, the class attributes named after   *)
(* fields, __vldt_validators__ and its four flags, __vldt_config__).       *)

\* A vldt.fields.Field object; an attribute it lacks is Nothing.
FieldObj(alias, default, default_factory) ==
    [k |-> "fieldobj",
     v |-> [alias |-> alias, default |-> default, default_factory |-> default_factory]]

\* One annotation: attr is the class attribute of that name (Nothing when
\* the class has none).
FieldDecl(name, type, classvar, attr) ==
    [name |-> name, type |-> type, classvar |-> classvar, attr |-> attr]

NoValidators ==
    [model_before |-> <<>>, field_before |-> <<>>,
     field_after |-> <<>>, model_after |-> <<>>]

Decl(name, annotations, validators, flags, config) ==
    [name |-> name,
     has_annotations |-> TRUE,
     annotations |-> annotations,
     has_validators |-> TRUE,
     validators |-> validators,
     has_field_before |-> flags[1],
     has_field_after |-> flags[2],
     has_model_before |-> flags[3],
     has_model_after |-> flags[4],
     config |-> config]

NoFlags == <<FALSE, FALSE, FALSE, FALSE>>
AllFlags == <<TRUE, TRUE, TRUE, TRUE>>

\* class Inner(DataModel): x: int
InnerDecl ==
    Decl("Inner", <<FieldDecl("x", IntType, FALSE, Nothing)>>,
         NoValidators, NoFlags, Nothing)

\* class Opt(DataModel): x: int = 5
OptDecl ==
    Decl("Opt", <<FieldDecl("x", IntType, FALSE, VInt(5))>>,
         NoValidators, NoFlags, Nothing)

\* class Strict(DataModel): x: int = 5, with a model-after validator that
\* raises ValueError("boom").
StrictDecl ==
    Decl("Strict", <<FieldDecl("x", IntType, FALSE, VInt(5))>>,
         [NoValidators EXCEPT !.model_after = <<VFunc("raise", "boom", None)>>],
         AllFlags, Nothing)

\* class Pair(DataModel): x: int; y: int
PairDecl ==
    Decl("Pair", <<FieldDecl("x", IntType, FALSE, Nothing),
                   FieldDecl("y", IntType, FALSE, Nothing)>>,
         NoValidators, NoFlags, Nothing)

\* class Node(DataModel): next: Optional[Node] = None; children: List[Node];
\* value: int -- a record whose fields name the record itself.
NodeDecl ==
    Decl("Node",
         <<FieldDecl("next", Generic("Union", <<Plain("Node"), NoneTypeT>>), FALSE, None),
           FieldDecl("children", Generic("list", <<Plain("Node")>>), FALSE, Nothing),
           FieldDecl("value", IntType, FALSE, Nothing)>>,
         NoValidators, NoFlags, Nothing)

\* class Ping(DataModel): pong: Pong, and class Pong(DataModel):
\* ping: Dict[str, Ping] -- two records that name each other.
PingDecl ==
    Decl("Ping", <<FieldDecl("pong", Plain("Pong"), FALSE, Nothing)>>,
         NoValidators, NoFlags, Nothing)
PongDecl ==
    Decl("Pong", <<FieldDecl("ping", Generic("typing.Dict", <<StrType, Plain("Ping")>>),
                             FALSE, Nothing)>>,
         NoValidators, NoFlags, Nothing)

\* The nested record classes, by name.
ClassDecl(name) ==
    CASE name = "Inner" -> InnerDecl
      [] name = "Opt" -> OptDecl
      [] name = "Pair" -> PairDecl
      [] name = "Node" -> NodeDecl
      [] name = "Ping" -> PingDecl
      [] name = "Pong" -> PongDecl
      [] OTHER -> StrictDecl

-----------------------------------------------------------------------------
(* Validation and coercion engine.  Every operator returns the converted   *)
(* value (Nothing for nullptr), the collector as the call left it, and the *)
(* user-visible calls it made (constructors, deserializers, nested inits). *)

Res(val, coll, calls) == [val |-> val, coll |-> coll, calls |-> calls]

\* Result r, reached after the calls of dcalls.
AfterCalls(dcalls, r) == Res(r.val, r.coll, dcalls \o r.calls)

\* safe_type_name of a type object / of a value.
safe_type_name_of_type(d) == d.name
safe_type_name(x) == TypeNameOf(x)

validate_int(value_, coll, error_path) ==
    IF value_.k \in {"int", "bool"}
    THEN Res(value_, coll, <<>>)
    ELSE LET conv == PyInt(value_)
         IN  IF conv # Nothing /\ conv.k \in {"int", "bool"}
             THEN Res(conv, coll, <<"ctor:int">>)
             ELSE Res(Nothing,
                      add_error(coll, error_path,
                                "Expected type int, got " \o safe_type_name(value_)),
                      <<"ctor:int">>)

validate_str(value_, coll, error_path) ==
    IF value_.k = "str"
    THEN Res(value_, coll, <<>>)
    ELSE LET conv == PyStr(value_)
         IN  IF conv # Nothing /\ conv.k = "str"
             THEN Res(conv, coll, <<"ctor:str">>)
             ELSE Res(Nothing,
                      add_error(coll, error_path,
                                "Expected type str, got " \o safe_type_name(value_)),
                      <<"ctor:str">>)

validate_float(value_, coll, error_path) ==
    IF value_.k = "float"
    THEN Res(value_, coll, <<>>)
    ELSE LET conv == PyFloat(value_)
         IN  IF conv # Nothing /\ conv.k = "float"
             THEN Res(conv, coll, <<"ctor:float">>)
             ELSE Res(Nothing,
                      add_error(coll, error_path,
                                "Expected type float, got " \o safe_type_name(value_)),
                      <<"ctor:float">>)

validate_bool(value_, coll, error_path) ==
    IF value_.k = "bool"
    THEN Res(value_, coll, <<>>)
    ELSE LET conv == PyBool(value_)
         IN  IF conv # Nothing /\ conv.k = "bool"
             THEN Res(conv, coll, <<"ctor:bool">>)
             ELSE Res(Nothing,
                      add_error(coll, error_path,
                                "Expected type bool, got " \o safe_type_name(value_)),
                      <<"ctor:bool">>)

RECURSIVE DataModel_init(_, _)
RECURSIVE validate_and_convert(_, _, _, _, _)
RECURSIVE validate_data_model(_, _, _, _, _)
RECURSIVE validate_plain(_, _, _, _, _)
RECURSIVE convert_using_constructor(_, _, _, _, _)
RECURSIVE validate_list(_, _, _, _, _)
RECURSIVE validate_list_items(_, _, _, _, _, _, _, _)
RECURSIVE validate_dict(_, _, _, _, _)
RECURSIVE validate_dict_items(_, _, _, _, _, _, _, _)
RECURSIVE validate_tuple(_, _, _, _, _)
RECURSIVE validate_tuple_items(_, _, _, _, _, _, _, _)
RECURSIVE validate_set(_, _, _, _, _)
RECURSIVE validate_set_items(_, _, _, _, _, _, _, _)
RECURSIVE validate_union(_, _, _, _, _)
RECURSIVE validate_union_coerce(_, _, _, _, _, _, _)

\* Log entries of calls made inside a stage, marked with the stage.
InStage(stage, lg) == [i \in 1..Len(lg) |-> stage \o ">" \o lg[i]]

\* The log of a nested construction, marked as nested.
Nest(lg) == [i \in 1..Len(lg) |-> ">" \o lg[i]]

\* What calling record class d returns, r being what its init did.
Constructed(d, r) ==
    [val |-> IF r.rc = 0 THEN VInst(d.name, r.fields) ELSE Nothing,
     calls |-> <<"ctor:" \o d.name>> \o Nest(r.log)]

\* expected_type(value): calling the declared type with one positional
\* argument.  A record class ignores positional arguments, so its init runs
\* without keywords; a parameterized alias of list, dict or type calls its
\* origin (type(value) is the class of the value); the other typing
\* constructs cannot be instantiated.
CallType(d, value_) ==
    IF d.origin # "none" /\ d.hasargs /\ d.origin = "list"
    THEN [val |-> PyList(value_), calls |-> <<"ctor:list">>]
    ELSE IF d.origin # "none" /\ d.hasargs /\ d.origin = "dict"
    THEN [val |-> PyDict(value_), calls |-> <<"ctor:dict">>]
    ELSE IF d.origin # "none" /\ d.hasargs /\ d.origin = "type"
    THEN [val |-> VType(TypeNameOf(value_)), calls |-> <<"ctor:type">>]
    ELSE IF d.origin # "none" THEN [val |-> Nothing, calls |-> <<"ctor:" \o d.name>>]
    ELSE
    CASE d.name = "int" -> [val |-> PyInt(value_), calls |-> <<"ctor:int">>]
      [] d.name = "str" -> [val |-> PyStr(value_), calls |-> <<"ctor:str">>]
      [] d.name = "float" -> [val |-> PyFloat(value_), calls |-> <<"ctor:float">>]
      [] d.name = "bool" -> [val |-> PyBool(value_), calls |-> <<"ctor:bool">>]
      [] d.name = "list" -> [val |-> PyList(value_), calls |-> <<"ctor:list">>]
      [] d.name \in ModelNames ->
            Constructed(d, DataModel_init(ClassDecl(d.name), Nothing))
      [] OTHER -> [val |-> Nothing, calls |-> <<"ctor:" \o d.name>>]

\* A variant that records one error of its own at the path instead of the
\* entries of the nested tree; C15 tells it apart from data_model_result.
data_model_result_flat(ts, coll, error_path, r) ==
    IF r.rc = 0
    THEN Res(VInst(ts.expected_type.name, r.fields), coll,
             <<"init:" \o ts.expected_type.name>> \o Nest(r.log))
    ELSE Res(Nothing,
             add_error(coll, error_path,
                       "Expected type " \o safe_type_name_of_type(ts.expected_type)
                       \o ", got " \o "dict"),
             <<"init:" \o ts.expected_type.name>> \o Nest(r.log))

\* The tail of validate_data_model, r being what the init of the class did.
data_model_result(ts, coll, error_path, r) ==
    IF r.rc = 0
    THEN Res(VInst(ts.expected_type.name, r.fields), coll,
             <<"init:" \o ts.expected_type.name>> \o Nest(r.log))
    ELSE Res(Nothing, add_suberror(coll, error_path, r.exc.msg),
             <<"init:" \o ts.expected_type.name>> \o Nest(r.log))

validate_data_model(value_, ts, coll, error_path, deserializers) ==
    data_model_result(ts, coll, error_path,
                      DataModel_init(ClassDecl(ts.expected_type.name), value_))

\* A variant that consults the registry before the instance check; C13
\* tells it apart from validate_plain.
validate_plain_registry_first(value_, ts, coll, error_path, deserializers) ==
    LET deserializer_func ==
            IF deserializers # Nothing
            THEN get_deserializer(deserializers, ts.expected_type,
                                  TypeNameOf(value_))
            ELSE Nothing
        tried == deserializer_func # Nothing /\ deserializer_func # None
        deserialized == IF tried THEN CallFunc(deserializer_func, value_) ELSE Nothing
        dcalls == (IF deserializers # Nothing THEN <<"get_deserializer">> ELSE <<>>)
                  \o (IF tried THEN <<"deserializer">> ELSE <<>>)
    IN  IF tried /\ deserialized # Nothing
           /\ PyObject_IsInstance(deserialized, ts.expected_type) # 0
        THEN Res(deserialized, coll, dcalls)
        ELSE AfterCalls(dcalls,
                 CASE ts.expected_type = IntType ->
                        validate_int(value_, coll, error_path)
                   [] ts.expected_type = StrType ->
                        validate_str(value_, coll, error_path)
                   [] ts.expected_type = FloatType ->
                        validate_float(value_, coll, error_path)
                   [] ts.expected_type = BoolType ->
                        validate_bool(value_, coll, error_path)
                   [] OTHER ->
                        IF PyObject_IsInstance(value_, ts.expected_type) # 0
                        THEN Res(value_, coll, <<>>)
                        ELSE convert_using_constructor(value_, ts, coll,
                                                       error_path, deserializers))

\* validate_plain: the calls name the registry lookup ("get_deserializer")
\* and the call of the converter found ("deserializer").
validate_plain(value_, ts, coll, error_path, deserializers) ==
    IF PyObject_IsInstance(value_, ts.expected_type) # 0
    THEN Res(value_, coll, <<>>)
    ELSE LET deserializer_func ==
                 IF deserializers # Nothing
                 THEN get_deserializer(deserializers, ts.expected_type,
                                       TypeNameOf(value_))
                 ELSE Nothing
             tried == deserializer_func # Nothing /\ deserializer_func # None
             deserialized == IF tried THEN CallFunc(deserializer_func, value_) ELSE Nothing
             dcalls == (IF deserializers # Nothing THEN <<"get_deserializer">> ELSE <<>>)
                       \o (IF tried THEN <<"deserializer">> ELSE <<>>)
         IN  IF tried /\ deserialized # Nothing
                /\ PyObject_IsInstance(deserialized, ts.expected_type) # 0
             THEN Res(deserialized, coll, dcalls)
             ELSE AfterCalls(dcalls,
                      CASE ts.expected_type = IntType ->
                             validate_int(value_, coll, error_path)
                        [] ts.expected_type = StrType ->
                             validate_str(value_, coll, error_path)
                        [] ts.expected_type = FloatType ->
                             validate_float(value_, coll, error_path)
                        [] ts.expected_type = BoolType ->
                             validate_bool(value_, coll, error_path)
                        [] OTHER ->
                             convert_using_constructor(value_, ts, coll, error_path,
                                                       deserializers))

\* The tail of convert_using_constructor, c being what the call returned.
constructor_result(value_, ts, coll, error_path, c) ==
    IF c.val # Nothing /\ PyObject_IsInstance(c.val, ts.expected_type) # 0
    THEN Res(c.val, coll, c.calls)
    ELSE Res(Nothing,
             add_error(coll, error_path,
                       "Expected type " \o safe_type_name_of_type(ts.expected_type)
                       \o ", got " \o safe_type_name(value_)),
             c.calls)

convert_using_constructor(value_, ts, coll, error_path, deserializers) ==
    constructor_result(value_, ts, coll, error_path, CallType(ts.expected_type, value_))

validate_and_convert(value_, ts, coll, error_path, deserializers) ==
    IF value_ = None /\ ts.is_optional THEN Res(None, coll, <<>>)
    ELSE IF ts.expected_type = AnyType THEN Res(value_, coll, <<>>)
    ELSE IF ts.is_data_model /\ value_.k = "dict"
    THEN validate_data_model(value_, ts, coll, error_path, deserializers)
    ELSE IF ts.container_kind = CK_LIST
    THEN validate_list(value_, ts, coll, error_path, deserializers)
    ELSE IF ts.container_kind = CK_DICT
    THEN validate_dict(value_, ts, coll, error_path, deserializers)
    ELSE IF ts.container_kind = CK_TUPLE
    THEN validate_tuple(value_, ts, coll, error_path, deserializers)
    ELSE IF ts.container_kind = CK_SET
    THEN validate_set(value_, ts, coll, error_path, deserializers)
    ELSE IF ts.origin = "none"
    THEN validate_plain(value_, ts, coll, error_path, deserializers)
    ELSE IF ts.container_kind = CK_UNION
    THEN validate_union(value_, ts, coll, error_path, deserializers)
    ELSE convert_using_constructor(value_, ts, coll, error_path, deserializers)

\* A variant of the loop that goes on to the next element after a failure;
\* C14 tells it apart from validate_list_items.
RECURSIVE validate_list_items_all(_, _, _, _, _, _, _, _)
validate_list_items_all(items, i, ts, coll, error_path, deserializers, acc, calls) ==
    IF i >= Len(items)
    THEN Res(IF Len(acc) = Len(items) THEN VList(acc) ELSE Nothing, coll, calls)
    ELSE LET r == validate_and_convert(items[i + 1], ts.args[1], coll,
                                       error_path \o "." \o ToString(i), deserializers)
         IN  validate_list_items_all(items, i + 1, ts, r.coll, error_path, deserializers,
                                     IF r.val = Nothing THEN acc ELSE Append(acc, r.val),
                                     calls \o r.calls)

\* A variant of the loop that leaves a failing element out and returns the
\* list of the others; C21 tells it apart from validate_list_items.
validate_list_items_partial(items, i, ts, coll, error_path, deserializers, acc, calls) ==
    IF i >= Len(items) THEN Res(VList(acc), coll, calls)
    ELSE LET r == validate_and_convert(items[i + 1], ts.args[1], coll,
                                       error_path \o "." \o ToString(i), deserializers)
         IN  validate_list_items(items, i + 1, ts, r.coll, error_path, deserializers,
                                 IF r.val = Nothing THEN acc ELSE Append(acc, r.val),
                                 calls \o r.calls)

\* The loop of validate_list from index i (0-based, as the path spells it).
validate_list_items(items, i, ts, coll, error_path, deserializers, acc, calls) ==
    IF i >= Len(items) THEN Res(VList(acc), coll, calls)
    ELSE LET r == validate_and_convert(items[i + 1], ts.args[1], coll,
                                       error_path \o "." \o ToString(i), deserializers)
         IN  IF r.val = Nothing
             THEN Res(Nothing, r.coll, calls \o r.calls)
             ELSE validate_list_items(items, i + 1, ts, r.coll, error_path,
                                      deserializers, Append(acc, r.val),
                                      calls \o r.calls)

validate_list(value_, ts, coll, error_path, deserializers) ==
    IF value_.k # "list"
    THEN Res(Nothing,
             add_error(coll, error_path, "Expected a list, got " \o safe_type_name(value_)),
             <<>>)
    ELSE validate_list_items(value_.v, 0, ts, coll, error_path, deserializers, <<>>, <<>>)

\* The loop of validate_dict from entry i: the key and the value of an entry
\* are both validated at path.key_str; PyDict_SetItem fails, with nothing
\* recorded, on an unhashable converted key.
validate_dict_items(items, i, ts, coll, error_path, deserializers, acc, calls) ==
    IF i >= Len(items) THEN Res(VDict(acc), coll, calls)
    ELSE LET key == items[i + 1][1]
             val == items[i + 1][2]
             key_str == IF key.k = "str" THEN key.v ELSE safe_type_name(key)
             new_path == error_path \o "." \o key_str
             rk == validate_and_convert(key, ts.args[1], coll, new_path, deserializers)
             rv == validate_and_convert(val, ts.args[2], rk.coll, new_path, deserializers)
         IN  IF rk.val = Nothing
             THEN Res(Nothing, rk.coll, calls \o rk.calls)
             ELSE IF rv.val = Nothing
             THEN Res(Nothing, rv.coll, calls \o rk.calls \o rv.calls)
             ELSE IF ~Hashable(rk.val)
             THEN Res(Nothing, rv.coll, calls \o rk.calls \o rv.calls)
             ELSE validate_dict_items(items, i + 1, ts, rv.coll, error_path,
                                      deserializers, DictSet(acc, rk.val, rv.val),
                                      calls \o rk.calls \o rv.calls)

validate_dict(value_, ts, coll, error_path, deserializers) ==
    IF value_.k # "dict"
    THEN Res(Nothing,
             add_error(coll, error_path, "Expected a dict, got " \o safe_type_name(value_)),
             <<>>)
    ELSE validate_dict_items(value_.v, 0, ts, coll, error_path, deserializers, <<>>, <<>>)

validate_tuple_items(items, i, ts, coll, error_path, deserializers, acc, calls) ==
    IF i >= Len(items) THEN Res(VTuple(acc), coll, calls)
    ELSE LET r == validate_and_convert(items[i + 1], ts.args[i + 1], coll,
                                       error_path \o "." \o ToString(i), deserializers)
         IN  IF r.val = Nothing
             THEN Res(Nothing, r.coll, calls \o r.calls)
             ELSE validate_tuple_items(items, i + 1, ts, r.coll, error_path,
                                       deserializers, Append(acc, r.val),
                                       calls \o r.calls)

validate_tuple(value_, ts, coll, error_path, deserializers) ==
    IF value_.k # "tuple"
    THEN Res(Nothing,
             add_error(coll, error_path, "Expected a tuple, got " \o safe_type_name(value_)),
             <<>>)
    ELSE IF ts.num_args # Len(value_.v)
    THEN Res(Nothing,
             add_error(coll, error_path,
                       "Expected tuple of length " \o ToString(ts.num_args)
                       \o ", got " \o ToString(Len(value_.v))),
             <<>>)
    ELSE validate_tuple_items(value_.v, 0, ts, coll, error_path, deserializers, <<>>, <<>>)

\* The loop of validate_set over the iteration order of the input; PySet_Add
\* fails, with nothing recorded, on an unhashable converted element.  The
\* loop reads ts->args[0] for every element: args is null when the
\* declaration has no arguments.
validate_set_items(items, i, ts, coll, error_path, deserializers, acc, calls) ==
    IF i >= Len(items) THEN Res(VSet(acc), coll, calls)
    ELSE IF ts.num_args = 0 THEN Res(Segfault, coll, calls)
    ELSE LET r == validate_and_convert(items[i + 1], ts.args[1], coll,
                                       error_path \o "." \o ToString(i), deserializers)
         IN  IF r.val = Nothing
             THEN Res(Nothing, r.coll, calls \o r.calls)
             ELSE IF ~Hashable(r.val)
             THEN Res(Nothing, r.coll, calls \o r.calls)
             ELSE validate_set_items(items, i + 1, ts, r.coll, error_path,
                                     deserializers, SetAdd(acc, r.val),
                                     calls \o r.calls)

validate_set(value_, ts, coll, error_path, deserializers) ==
    IF value_.k # "set"
    THEN Res(Nothing,
             add_error(coll, error_path, "Expected a set, got " \o safe_type_name(value_)),
             <<>>)
    ELSE validate_set_items(value_.v, 0, ts, coll, error_path, deserializers, <<>>, <<>>)

\* A variant in which the first pass matches nothing; C10 tells it apart
\* from UnionExactMatch.
UnionExactMatch_never(value_, candidate) == FALSE

\* The first pass of validate_union: is value an instance of candidate i's
\* origin (when generic) or declared type?  A truthy -1 counts as a match.
UnionExactMatch(value_, candidate) ==
    (IF candidate.origin # "none"
     THEN IsInstanceOfName(value_, candidate.origin)
     ELSE PyObject_IsInstance(value_, candidate.expected_type)) # 0

\* The second pass, from candidate i (1-based), with the scratch collector.
validate_union_coerce(value_, ts, i, temp_collector, error_path, deserializers, calls) ==
    IF i > ts.num_args THEN Res(Nothing, temp_collector, calls)
    ELSE LET r == validate_and_convert(value_, ts.args[i], temp_collector,
                                       error_path, deserializers)
         IN  IF r.val # Nothing
             THEN Res(r.val, r.coll, calls \o r.calls)
             ELSE validate_union_coerce(value_, ts, i + 1, r.coll, error_path,
                                        deserializers, calls \o r.calls)

\* A variant without the first pass; C9 tells it apart from validate_union.
validate_union_coerce_only(value_, ts, coll, error_path, deserializers) ==
    LET r == validate_union_coerce(value_, ts, 1, NullDoc, error_path,
                                   deserializers, <<>>)
    IN  IF r.val # Nothing
        THEN Res(r.val, coll, r.calls)
        ELSE Res(Nothing,
                 add_error(coll, error_path,
                           "Value did not match any candidate in Union: got "
                           \o safe_type_name(value_)),
                 r.calls)

\* A variant whose second pass writes into the caller's collector; C11 tells
\* it apart from validate_union.
validate_union_shared(value_, ts, coll, error_path, deserializers) ==
    IF \E i \in 1..ts.num_args : UnionExactMatch(value_, ts.args[i])
    THEN Res(value_, coll, <<>>)
    ELSE LET r == validate_union_coerce(value_, ts, 1, coll, error_path,
                                        deserializers, <<>>)
         IN  IF r.val # Nothing
             THEN Res(r.val, r.coll, r.calls)
             ELSE Res(Nothing,
                      add_error(r.coll, error_path,
                                "Value did not match any candidate in Union: got "
                                \o safe_type_name(value_)),
                      r.calls)

validate_union(value_, ts, coll, error_path, deserializers) ==
    IF \E i \in 1..ts.num_args : UnionExactMatch(value_, ts.args[i])
    THEN Res(value_, coll, <<>>)
    ELSE LET r == validate_union_coerce(value_, ts, 1, NullDoc, error_path,
                                        deserializers, <<>>)
         IN  IF r.val # Nothing
             THEN Res(r.val, coll, r.calls)
             ELSE Res(Nothing,
                      add_error(coll, error_path,
                                "Value did not match any candidate in Union: got "
                                \o safe_type_name(value_)),
                      r.calls)

-----------------------------------------------------------------------------
(* Model schema compiler.                                                  *)

\* compile_field_schema: alias, default and default factory of one field.
compile_field_schema(decl, fd) ==
    LET field_obj == fd.attr
        has_descriptor_attrs ==
            field_obj.k = "fieldobj"
            /\ (field_obj.v.default # Nothing \/ field_obj.v.default_factory # Nothing)
        alias_obj == IF has_descriptor_attrs THEN field_obj.v.alias ELSE Nothing
        alias == IF alias_obj # Nothing /\ alias_obj.k = "str"
                 THEN VList(<<alias_obj>>) ELSE alias_obj
        factory == IF has_descriptor_attrs THEN field_obj.v.default_factory ELSE Nothing
        use_factory == factory # Nothing /\ factory # None /\ PyCallable_Check(factory)
    IN  [field_name |-> fd.name,
         alias |-> alias,
         default_value |->
             IF field_obj = Nothing THEN VLDTUndefined
             ELSE IF ~has_descriptor_attrs THEN field_obj
             ELSE IF use_factory THEN VLDTUndefined
             ELSE IF field_obj.v.default # Nothing THEN field_obj.v.default
             ELSE VLDTUndefined,
         default_factory |-> IF use_factory THEN factory ELSE None,
         type_schema |-> compile_type_schema(fd.type)]

\* A __vldt_config__: an attribute it lacks is Nothing.
Config(dict_serializer, deserializer) ==
    [dict_serializer |-> dict_serializer, deserializer |-> deserializer]

\* compile_config: the deserializer table of the class.
compile_config(decl) ==
    IF decl.config # Nothing /\ decl.config.deserializer # Nothing
    THEN create_deserializers(decl.config.deserializer)
    ELSE Nothing

\* compile_config: schema->dict_serializer, Py_None when the class or its
\* config has none.
config_dict_serializer(decl) ==
    IF decl.config # Nothing /\ decl.config.dict_serializer # Nothing
    THEN decl.config.dict_serializer
    ELSE None

\* The annotations that are not ClassVar, in declaration order.
RECURSIVE InstanceFields(_, _)
InstanceFields(annotations, i) ==
    IF i > Len(annotations) THEN <<>>
    ELSE (IF annotations[i].classvar THEN <<>> ELSE <<annotations[i]>>)
         \o InstanceFields(annotations, i + 1)

\* compile_schema: Nothing when the annotations are missing.
compile_schema(decl) ==
    IF ~decl.has_annotations THEN Nothing
    ELSE LET fds == InstanceFields(decl.annotations, 1)
         IN  [k |-> "schema",
              fields |-> [i \in 1..Len(fds) |-> compile_field_schema(decl, fds[i])],
              num_fields |-> Len(fds),
              instance_annotations |-> decl.annotations,
              deserializers |-> compile_config(decl),
              dict_serializer |-> config_dict_serializer(decl),
              validators |-> IF decl.has_validators THEN decl.validators ELSE NoValidators,
              has_field_before |-> decl.has_validators /\ decl.has_field_before,
              has_field_after |-> decl.has_validators /\ decl.has_field_after,
              has_model_before |-> decl.has_validators /\ decl.has_model_before,
              has_model_after |-> decl.has_validators /\ decl.has_model_after]

\* get_schema_cached for one thread of control: the slot holds what
\* compile_schema returns for the class.
get_schema_cached(decl) == compile_schema(decl)

-----------------------------------------------------------------------------
(* Instance data: the fields map of one instance, as <<name, value>>       *)
(* entries.                                                                *)

FieldHas(fs_, name) == \E i \in 1..Len(fs_) : fs_[i][1] = name

FieldGet(fs_, name) ==
    IF FieldHas(fs_, name)
    THEN fs_[CHOOSE i \in 1..Len(fs_) : fs_[i][1] = name][2]
    ELSE Nothing

\* fields[name] = val
FieldSet(fs_, name, val) ==
    IF FieldHas(fs_, name)
    THEN [i \in 1..Len(fs_) |-> IF fs_[i][1] = name THEN <<name, val>> ELSE fs_[i]]
    ELSE Append(fs_, <<name, val>>)

-----------------------------------------------------------------------------
(* Validator pipeline.  Every stage returns                                *)
(*   rc     0 on success, -1 with the exception set, -2 when the process   *)
(*          dereferences a null pointer,                                   *)
(*   kwds   the input mapping after the stage,                             *)
(*   fields the instance data after the stage,                             *)
(*   log    what the stage called, in order.                               *)

St(rc, kw, fs_, e, lg) == [rc |-> rc, kwds |-> kw, fields |-> fs_, exc |-> e, log |-> lg]

get_callable_validator(validator) ==
    IF PyCallable_Check(validator) THEN validator ELSE Nothing

\* PyDict_Update(target, result)
RECURSIVE PyDict_Update(_, _, _)
PyDict_Update(target, result, i) ==
    IF i > Len(result) THEN target
    ELSE PyDict_Update(DictSet(target, result[i][1], result[i][2]), result, i + 1)

\* run_model_validators from the i-th validator of the list.  A validator
\* called without its mapping argument (target is a null pointer) fails on
\* the missing argument.
RECURSIVE run_model_validators(_, _, _, _, _, _, _)
run_model_validators(tag, validator_list, i, target, call_with_cls, fs_, lg) ==
    IF i > Len(validator_list) THEN St(0, target, fs_, NoExc, lg)
    ELSE LET callable_validator == get_callable_validator(validator_list[i])
         IN  IF callable_validator = Nothing
             THEN run_model_validators(tag, validator_list, i + 1, target,
                                       call_with_cls, fs_, lg)
             ELSE LET result == IF target = Nothing THEN Nothing
                                ELSE CallFunc(callable_validator, target)
                      lg1 == Append(lg, tag \o ":" \o ToString(i))
                  IN  IF result = Nothing
                      THEN St(-1, target, fs_,
                              Exc("validator",
                                  TextMsg(IF target = Nothing
                                          THEN "missing argument"
                                          ELSE callable_validator.v.msg)),
                              lg1)
                      ELSE IF result.k = "dict" /\ call_with_cls
                      THEN run_model_validators(
                               tag, validator_list, i + 1,
                               VDict(PyDict_Update(target.v, result.v, 1)),
                               call_with_cls, fs_, lg1)
                      ELSE run_model_validators(tag, validator_list, i + 1, target,
                                                call_with_cls, fs_, lg1)

run_model_before_validators(schema, kw, fs_, lg) ==
    IF ~schema.has_model_before THEN St(0, kw, fs_, NoExc, lg)
    ELSE IF Len(schema.validators.model_before) = 0 THEN St(0, kw, fs_, NoExc, lg)
    ELSE run_model_validators("model_before", schema.validators.model_before, 1,
                              kw, TRUE, fs_, Append(lg, "model_before"))

\* The chain of one field's validators from the i-th on: the value after
\* the chain, or Nothing when a validator raised (msg is what it raised).
RECURSIVE run_validator_chain(_, _, _, _, _)
run_validator_chain(tag, val, i, current_value, lg) ==
    IF i > Len(val) THEN [val |-> current_value, msg |-> "", log |-> lg]
    ELSE LET callable_validator == get_callable_validator(val[i])
         IN  IF callable_validator = Nothing
             THEN run_validator_chain(tag, val, i + 1, current_value, lg)
             ELSE LET new_value == CallFunc(callable_validator, current_value)
                      lg1 == Append(lg, tag \o ":" \o ToString(i))
                  IN  IF new_value = Nothing
                      THEN [val |-> Nothing, msg |-> callable_validator.v.msg, log |-> lg1]
                      ELSE run_validator_chain(tag, val, i + 1, new_value, lg1)

\* A variant that applies the chain of an entry whose key the input lacks
\* to None and writes the result under the key; C30 tells it apart from
\* field_before_loop.
RECURSIVE field_before_loop_absent_too(_, _, _, _, _)
field_before_loop_absent_too(field_before, j, kw, fs_, lg) ==
    IF j > Len(field_before) THEN St(0, kw, fs_, NoExc, lg)
    ELSE IF kw = Nothing THEN St(-2, kw, fs_, Exc("crash", TextMsg("")), lg)
    ELSE LET key == field_before[j][1]
             val == field_before[j][2]
             r == run_validator_chain("field_before:" \o key, val, 1,
                                      IF DictHas(kw.v, VStr(key))
                                      THEN DictGet(kw.v, VStr(key)) ELSE None, lg)
         IN  IF r.val = Nothing
             THEN St(-1, kw, fs_, Exc("validator", TextMsg(r.msg)), r.log)
             ELSE field_before_loop_absent_too(field_before, j + 1,
                                               VDict(DictSet(kw.v, VStr(key), r.val)),
                                               fs_, r.log)

\* The while loop of run_field_before_validators from entry j.
RECURSIVE field_before_loop(_, _, _, _, _)
field_before_loop(field_before, j, kw, fs_, lg) ==
    IF j > Len(field_before) THEN St(0, kw, fs_, NoExc, lg)
    ELSE IF kw = Nothing THEN St(-2, kw, fs_, Exc("crash", TextMsg("")), lg)
    ELSE LET key == field_before[j][1]
             val == field_before[j][2]
         IN  IF ~DictHas(kw.v, VStr(key))
             THEN field_before_loop(field_before, j + 1, kw, fs_, lg)
             ELSE LET r == run_validator_chain("field_before:" \o key, val, 1,
                                               DictGet(kw.v, VStr(key)), lg)
                  IN  IF r.val = Nothing
                      THEN St(-1, kw, fs_, Exc("validator", TextMsg(r.msg)), r.log)
                      ELSE field_before_loop(field_before, j + 1,
                                             VDict(DictSet(kw.v, VStr(key), r.val)),
                                             fs_, r.log)

run_field_before_validators(schema, kw, fs_, lg) ==
    IF ~schema.has_field_before THEN St(0, kw, fs_, NoExc, lg)
    ELSE IF Len(schema.validators.field_before) = 0 THEN St(0, kw, fs_, NoExc, lg)
    ELSE field_before_loop(schema.validators.field_before, 1, kw, fs_,
                           Append(lg, "field_before"))

\* The tail of DataModel_setattro, r being what validate_and_convert
\* returned for the value.
attr_converted(fs_, name, r) ==
    IF r.val = Nothing
    THEN [rc |-> -1, fields |-> fs_,
          exc |-> IF has_errors(r.coll)
                  THEN Exc("ErrorTree", to_json(r.coll))
                  ELSE Exc("TypeError",
                           TextMsg("Invalid value for attribute '" \o name \o "'")),
          log |-> r.calls]
    ELSE [rc |-> 0, fields |-> FieldSet(fs_, name, r.val),
          exc |-> NoExc, log |-> r.calls]

\* DataModel_setattro: assignment to an annotated attribute validates the
\* value against the annotation with a collector of its own.
DataModel_setattro(schema, fs_, name, value_) ==
    LET annotations == schema.instance_annotations
        known == \E i \in 1..Len(annotations) : annotations[i].name = name
        fd == annotations[CHOOSE i \in 1..Len(annotations) : annotations[i].name = name]
    IN  IF ~known THEN [rc |-> 0, fields |-> FieldSet(fs_, name, value_),
                        exc |-> NoExc, log |-> <<>>]
        ELSE IF fd.classvar
        THEN [rc |-> -1, fields |-> fs_,
              exc |-> Exc("AttributeError", TextMsg("Cannot set ClassVar attribute")),
              log |-> <<>>]
        ELSE attr_converted(fs_, name,
                            validate_and_convert(value_, compile_type_schema(fd.type),
                                                 NullDoc, name, schema.deserializers))

\* The class attribute of that name, Nothing when the class has none.
ClassAttr(decl, name) ==
    IF \E i \in 1..Len(decl.annotations) : decl.annotations[i].name = name
    THEN decl.annotations[CHOOSE i \in 1..Len(decl.annotations) :
                              decl.annotations[i].name = name].attr
    ELSE Nothing

\* DataModel_getattro: the instance data first, the class next.
DataModel_getattro(decl, fs_, name) ==
    IF FieldHas(fs_, name) THEN FieldGet(fs_, name) ELSE ClassAttr(decl, name)

\* The while loop of run_field_after_validators from entry j.
RECURSIVE field_after_loop(_, _, _, _, _, _, _)
RECURSIVE field_after_chained(_, _, _, _, _, _, _)
RECURSIVE field_after_written(_, _, _, _, _, _, _, _)
field_after_loop(decl, schema, field_after, j, kw, fs_, lg) ==
    IF j > Len(field_after) THEN St(0, kw, fs_, NoExc, lg)
    ELSE IF DataModel_getattro(decl, fs_, field_after[j][1]) = Nothing
    THEN field_after_loop(decl, schema, field_after, j + 1, kw, fs_, lg)
    ELSE field_after_chained(
             decl, schema, field_after, j, kw, fs_,
             run_validator_chain("field_after:" \o field_after[j][1],
                                 field_after[j][2], 1,
                                 DataModel_getattro(decl, fs_, field_after[j][1]), lg))

\* Entry j once its validator chain has run (r): the value is written back
\* with PyObject_SetAttr.
field_after_chained(decl, schema, field_after, j, kw, fs_, r) ==
    IF r.val = Nothing
    THEN St(-1, kw, fs_, Exc("validator", TextMsg(r.msg)), r.log)
    ELSE field_after_written(decl, schema, field_after, j, kw, fs_, r.log,
                             DataModel_setattro(schema, fs_, field_after[j][1], r.val))

\* Entry j once the attribute was assigned (set).
field_after_written(decl, schema, field_after, j, kw, fs_, lg, set) ==
    IF set.rc < 0
    THEN St(-1, kw, fs_, set.exc, lg \o InStage("field_after", set.log))
    ELSE field_after_loop(decl, schema, field_after, j + 1, kw, set.fields,
                          lg \o InStage("field_after", set.log))

\* A variant that does not look at the has-any flag of the stage; C5 tells
\* it apart from run_field_after_validators.
run_field_after_validators_unflagged(decl, schema, kw, fs_, lg) ==
    IF Len(schema.validators.field_after) = 0 THEN St(0, kw, fs_, NoExc, lg)
    ELSE field_after_loop(decl, schema, schema.validators.field_after, 1, kw, fs_,
                          Append(lg, "field_after"))

run_field_after_validators(decl, schema, kw, fs_, lg) ==
    IF ~schema.has_field_after THEN St(0, kw, fs_, NoExc, lg)
    ELSE IF Len(schema.validators.field_after) = 0 THEN St(0, kw, fs_, NoExc, lg)
    ELSE field_after_loop(decl, schema, schema.validators.field_after, 1, kw, fs_,
                          Append(lg, "field_after"))

\* The for loop of run_model_after_validators from the i-th validator; the
\* validator is called on the instance (with or without the class in front,
\* by its argument count) and its result is dropped.
RECURSIVE model_after_loop(_, _, _, _, _)
model_after_loop(model_after, i, kw, fs_, lg) ==
    IF i > Len(model_after) THEN St(0, kw, fs_, NoExc, lg)
    ELSE LET callable_validator == get_callable_validator(model_after[i])
         IN  IF callable_validator = Nothing
             THEN model_after_loop(model_after, i + 1, kw, fs_, lg)
             ELSE LET lg1 == Append(lg, "model_after:" \o ToString(i))
                  IN  IF CallFunc(callable_validator, None) = Nothing
                      THEN St(-1, kw, fs_,
                              Exc("validator", TextMsg(callable_validator.v.msg)), lg1)
                      ELSE model_after_loop(model_after, i + 1, kw, fs_, lg1)

\* A variant that drops the failure of a validator; C6 tells it apart from
\* run_model_after_validators.
run_model_after_validators_lenient(schema, kw, fs_, lg) ==
    IF ~schema.has_model_after THEN St(0, kw, fs_, NoExc, lg)
    ELSE IF Len(schema.validators.model_after) = 0 THEN St(0, kw, fs_, NoExc, lg)
    ELSE LET r == model_after_loop(schema.validators.model_after, 1, kw, fs_,
                                   Append(lg, "model_after"))
         IN  St(0, kw, r.fields, NoExc, r.log)

run_model_after_validators(schema, kw, fs_, lg) ==
    IF ~schema.has_model_after THEN St(0, kw, fs_, NoExc, lg)
    ELSE IF Len(schema.validators.model_after) = 0 THEN St(0, kw, fs_, NoExc, lg)
    ELSE model_after_loop(schema.validators.model_after, 1, kw, fs_,
                          Append(lg, "model_after"))

-----------------------------------------------------------------------------
(* Record construction.                                                    *)

\* The alias loop of DataModel_init from alias j: the first alias that is a
\* key of the input mapping.
RECURSIVE alias_lookup(_, _, _)
alias_lookup(kw, alias, j) ==
    IF j > Len(alias) THEN [value |-> Nothing, via |-> "none"]
    ELSE IF DictHas(kw, alias[j])
    THEN [value |-> DictGet(kw, alias[j]), via |-> "alias:" \o ToString(j)]
    ELSE alias_lookup(kw, alias, j + 1)

\* A variant that looks the canonical name up first; C8 tells it apart from
\* input_lookup.
input_lookup_name_first(fs, kw) ==
    IF kw # Nothing /\ kw.k = "dict"
    THEN IF DictHas(kw.v, VStr(fs.field_name))
         THEN [value |-> DictGet(kw.v, VStr(fs.field_name)), via |-> "name"]
         ELSE IF fs.alias # Nothing /\ fs.alias.k = "list"
         THEN alias_lookup(kw.v, fs.alias.v, 1)
         ELSE [value |-> Nothing, via |-> "none"]
    ELSE [value |-> Nothing, via |-> "none"]

\* The input value of a field: aliases first, the canonical name next.
input_lookup(fs, kw) ==
    IF kw # Nothing /\ kw.k = "dict"
    THEN LET a == IF fs.alias # Nothing /\ fs.alias.k = "list"
                  THEN alias_lookup(kw.v, fs.alias.v, 1)
                  ELSE [value |-> Nothing, via |-> "none"]
         IN  IF a.value # Nothing THEN a
             ELSE IF DictHas(kw.v, VStr(fs.field_name))
             THEN [value |-> DictGet(kw.v, VStr(fs.field_name)), via |-> "name"]
             ELSE [value |-> Nothing, via |-> "none"]
    ELSE [value |-> Nothing, via |-> "none"]

\* A variant without the rule for optional types; C7 tells it apart from
\* resolve_missing.
resolve_missing_strict(fs) ==
    IF fs.default_factory # None /\ PyCallable_Check(fs.default_factory)
    THEN LET v == CallFunc(fs.default_factory, None)
         IN  IF v = Nothing
             THEN [value |-> Nothing, via |-> "factory",
                   error |-> "Missing required field and default factory call failed"]
             ELSE [value |-> v, via |-> "factory", error |-> ""]
    ELSE IF fs.default_value # VLDTUndefined
    THEN [value |-> fs.default_value, via |-> "default", error |-> ""]
    ELSE [value |-> Nothing, via |-> "missing", error |-> "Missing required field"]

\* The value of a field absent from the input: factory, fixed default,
\* null of an optional type, or the missing-field error.
resolve_missing(fs) ==
    IF fs.default_factory # None /\ PyCallable_Check(fs.default_factory)
    THEN LET v == CallFunc(fs.default_factory, None)
         IN  IF v = Nothing
             THEN [value |-> Nothing, via |-> "factory",
                   error |-> "Missing required field and default factory call failed"]
             ELSE [value |-> v, via |-> "factory", error |-> ""]
    ELSE IF fs.default_value # VLDTUndefined
    THEN [value |-> fs.default_value, via |-> "default", error |-> ""]
    ELSE IF fs.type_schema.is_optional
    THEN [value |-> None, via |-> "optional", error |-> ""]
    ELSE [value |-> Nothing, via |-> "missing", error |-> "Missing required field"]

RECURSIVE field_resolved(_, _, _, _, _, _)
RECURSIVE field_stored(_, _, _, _, _)
\* One iteration of the field loop of DataModel_init, for field i.
\*   via       where the value came from,
\*   value     the value handed to validate_and_convert (Nothing if none),
\*   validated whether validate_and_convert was called,
\*   failed    whether the field has no validated value.
init_field(schema, i, kw, fs_, coll) ==
    field_resolved(schema, schema.fields[i], fs_, coll,
                   input_lookup(schema.fields[i], kw),
                   resolve_missing(schema.fields[i]))

\* The iteration once the input was looked up (found) and, for an absent
\* field, the defaults were consulted (missing).
field_resolved(schema, fs, fs_, coll, found, missing) ==
    IF found.value # Nothing
    THEN field_stored(fs, fs_, found.value, found.via,
                      validate_and_convert(found.value, fs.type_schema, coll,
                                           fs.field_name, schema.deserializers))
    ELSE IF missing.value # Nothing
    THEN field_stored(fs, fs_, missing.value, missing.via,
                      validate_and_convert(missing.value, fs.type_schema, coll,
                                           fs.field_name, schema.deserializers))
    ELSE [fields |-> fs_, coll |-> add_error(coll, fs.field_name, missing.error),
          log |-> <<"field:" \o fs.field_name>>, via |-> missing.via,
          value |-> Nothing, validated |-> FALSE, failed |-> TRUE]

\* The tail of the iteration, r being what validate_and_convert returned for
\* value_: the converted value is stored, or value_ itself on failure.
field_stored(fs, fs_, value_, via, r) ==
    [fields |-> FieldSet(fs_, fs.field_name,
                         IF r.val = Nothing THEN value_ ELSE r.val),
     coll |-> r.coll,
     log |-> <<"field:" \o fs.field_name>> \o r.calls,
     via |-> via, value |-> value_,
     validated |-> TRUE, failed |-> r.val = Nothing]

\* The field loop of DataModel_init from field i.
RECURSIVE field_loop(_, _, _, _, _, _)
RECURSIVE field_loop_next(_, _, _, _, _)
field_loop(schema, i, kw, fs_, coll, lg) ==
    IF i > schema.num_fields THEN [fields |-> fs_, coll |-> coll, log |-> lg]
    ELSE field_loop_next(schema, i, kw, lg, init_field(schema, i, kw, fs_, coll))

\* The loop after iteration i, f being what the iteration did.
field_loop_next(schema, i, kw, lg, f) ==
    field_loop(schema, i + 1, kw, f.fields, f.coll, lg \o f.log)

\* DataModel_init from the model-after stage on.
init_model_after(schema, fa) ==
    IF fa.rc # 0 THEN fa
    ELSE run_model_after_validators(schema, fa.kwds, fa.fields, fa.log)

\* DataModel_init from the has_errors check on, fl being what the field loop
\* left.
init_check(decl, schema, kw, fl) ==
    IF has_errors(fl.coll)
    THEN St(-1, kw, fl.fields, Exc("ErrorTree", to_json(fl.coll)), fl.log)
    ELSE init_model_after(schema,
             run_field_after_validators(decl, schema, kw, fl.fields, fl.log))

\* DataModel_init from the field loop on.
init_fields(decl, schema, fb) ==
    IF fb.rc # 0 THEN fb
    ELSE init_check(decl, schema, fb.kwds,
                    field_loop(schema, 1, fb.kwds, <<>>, NullDoc, fb.log))

\* DataModel_init from the field-before stage on.
init_field_before(decl, schema, mb) ==
    IF mb.rc # 0 THEN mb
    ELSE init_fields(decl, schema,
                     run_field_before_validators(schema, mb.kwds, <<>>, mb.log))

\* DataModel_init once the schema is fetched.
init_with_schema(decl, schema, kw) ==
    IF schema = Nothing
    THEN St(-1, kw, <<>>,
            Exc("TypeError", TextMsg("Could not compile model schema")), <<>>)
    ELSE init_field_before(decl, schema,
                           run_model_before_validators(schema, kw, <<>>, <<>>))

\* DataModel_init on a fresh instance of the class.
DataModel_init(decl, kw) == init_with_schema(decl, get_schema_cached(decl), kw)

-----------------------------------------------------------------------------
(* Value-tree codec: to_dict.  A dict_serializer is a dict keyed by type   *)
(* objects; the model keys it by the type's name.                          *)

NotImplemented == [k |-> "notimplemented", v |-> 0]

\* A user object; dc tells what its __deepcopy__ does ("none" when it has
\* no such attribute).
VObj(dc) == [k |-> "object", v |-> dc]

is_basic_immutable(value_) == value_.k \in {"int", "float", "str", "none", "bool"}

\* apply_dict_serializer: the encoder's result; Nothing when no encoder
\* applies, when it raises or when it returns NotImplemented.
apply_dict_serializer(value_, dict_serializer) ==
    IF dict_serializer # Nothing /\ dict_serializer.k = "dict"
       /\ Len(dict_serializer.v) > 0
    THEN LET conv_func == DictGet(dict_serializer.v, VStr(TypeNameOf(value_)))
             converted == IF conv_func # Nothing /\ PyCallable_Check(conv_func)
                          THEN CallFunc(conv_func, value_) ELSE Nothing
         IN  IF converted # NotImplemented THEN converted ELSE Nothing
    ELSE Nothing

RECURSIVE convert_to_dict(_, _)
RECURSIVE convert_items(_, _, _, _, _)
RECURSIVE convert_dict(_, _, _, _)
RECURSIVE convert_set(_, _, _, _)
RECURSIVE convert_fields(_, _, _, _)
RECURSIVE convert_datamodel(_, _)

\* convert_list and convert_tuple: the items from i on are added to acc;
\* Nothing when one fails.
convert_items(kind, items, i, dict_serializer, acc) ==
    IF i > Len(items) THEN [k |-> kind, v |-> acc]
    ELSE LET conv_item == convert_to_dict(items[i], dict_serializer)
         IN  IF conv_item = Nothing THEN Nothing
             ELSE convert_items(kind, items, i + 1, dict_serializer,
                                Append(acc, conv_item))

\* convert_dict: the keys are kept as they are.
convert_dict(items, i, dict_serializer, acc) ==
    IF i > Len(items) THEN VDict(acc)
    ELSE LET conv_value == convert_to_dict(items[i][2], dict_serializer)
         IN  IF conv_value = Nothing THEN Nothing
             ELSE convert_dict(items, i + 1, dict_serializer,
                               DictSet(acc, items[i][1], conv_value))

\* convert_set: PySet_Add fails on an unhashable converted item.
convert_set(items, i, dict_serializer, acc) ==
    IF i > Len(items) THEN VSet(acc)
    ELSE LET conv_item == convert_to_dict(items[i], dict_serializer)
         IN  IF conv_item = Nothing \/ ~Hashable(conv_item) THEN Nothing
             ELSE convert_set(items, i + 1, dict_serializer, SetAdd(acc, conv_item))

\* The loop of convert_datamodel over the schema's fields from i on: a
\* field the instance does not hold is skipped.
convert_fields(schema, i, fs_, result_dict) ==
    IF i > schema.num_fields THEN VDict(result_dict)
    ELSE LET name == schema.fields[i].field_name
             conv_value == IF FieldHas(fs_, name)
                           THEN convert_to_dict(FieldGet(fs_, name),
                                                schema.dict_serializer)
                           ELSE Nothing
         IN  IF ~FieldHas(fs_, name)
             THEN convert_fields(schema, i + 1, fs_, result_dict)
             ELSE IF conv_value = Nothing THEN Nothing
             ELSE convert_fields(schema, i + 1, fs_,
                                 DictSet(result_dict, VStr(name), conv_value))

\* A variant that leaves out the fields whose value is None; C18 tells it
\* apart from convert_datamodel.
convert_datamodel_exclude_none(decl, fs_) ==
    IF get_schema_cached(decl) = Nothing THEN Nothing
    ELSE convert_fields(get_schema_cached(decl), 1,
                        SelectSeq(fs_, LAMBDA e : e[2] # None), <<>>)

\* convert_datamodel on an instance of class decl whose data is fs_.
convert_datamodel(decl, fs_) ==
    IF get_schema_cached(decl) = Nothing THEN Nothing
    ELSE convert_fields(get_schema_cached(decl), 1, fs_, <<>>)

convert_to_dict(value_, dict_serializer) ==
    LET encoded == apply_dict_serializer(value_, dict_serializer)
    IN  IF encoded # Nothing THEN encoded
        ELSE IF is_basic_immutable(value_) THEN value_
        ELSE IF value_.k = "inst"
        THEN convert_datamodel(ClassDecl(value_.v.cls), value_.v.fields)
        ELSE IF value_.k = "list"
        THEN convert_items("list", value_.v, 1, dict_serializer, <<>>)
        ELSE IF value_.k = "dict"
        THEN convert_dict(value_.v, 1, dict_serializer, <<>>)
        ELSE IF value_.k = "tuple"
        THEN convert_items("tuple", value_.v, 1, dict_serializer, <<>>)
        ELSE IF value_.k = "set"
        THEN convert_set(value_.v, 1, dict_serializer, <<>>)
        ELSE value_

-----------------------------------------------------------------------------

(* __deepcopy__.  The object a source field holds has the address of its   *)
(* position in the field storage; an object made by the copy has an        *)
(* address beyond them.                                                    *)

\* PyObject_GetAttrString(value, "__deepcopy__") finds the attribute: record
\* instances have it, user objects may, the built-in values do not.
HasDeepcopy(value_) ==
    value_.k = "inst" \/ (value_.k = "object" /\ value_.v # "none")

RECURSIVE DataModel_deepcopy(_)
RECURSIVE copy_fields(_, _, _)

\* Calling value.__deepcopy__(memo): Nothing when it raises.
call_deepcopy(value_) ==
    IF value_.k = "inst"
    THEN LET dst == DataModel_deepcopy(value_.v.fields)
         IN  IF dst = Nothing THEN Nothing
             ELSE VInst(value_.v.cls,
                        [i \in 1..Len(dst.v) |-> <<dst.v[i].name, dst.v[i].val>>])
    ELSE IF value_.v = "raise" THEN Nothing
    ELSE value_

\* A variant that shares every field value with the source; C19 tells it
\* apart from copy_fields.
copy_fields_shared(fs_, i, dst) ==
    [k |-> "instance_data",
     v |-> [n \in 1..Len(fs_) |-> [name |-> fs_[n][1], val |-> fs_[n][2], addr |-> n]]]

\* The loop of DataModel_deepcopy over the source's fields from i on.
copy_fields(fs_, i, dst) ==
    IF i > Len(fs_) THEN [k |-> "instance_data", v |-> dst]
    ELSE LET copied_field == IF HasDeepcopy(fs_[i][2])
                             THEN call_deepcopy(fs_[i][2]) ELSE fs_[i][2]
         IN  IF copied_field = Nothing THEN Nothing
             ELSE copy_fields(fs_, i + 1,
                      Append(dst, [name |-> fs_[i][1], val |-> copied_field,
                                   addr |-> IF HasDeepcopy(fs_[i][2])
                                            THEN Len(fs_) + i ELSE i]))

\* DataModel_deepcopy: the field storage of the new instance, Nothing when
\* the copy of a field raised.
DataModel_deepcopy(fs_) == copy_fields(fs_, 1, <<>>)

-----------------------------------------------------------------------------

(* The inputs explored: declared types, values, registries, classes.       *)

OptInt == Generic("Union", <<IntType, NoneTypeT>>)
ListOfInt == Generic("list", <<IntType>>)
SetOfList == Generic("set", <<ListPlainType>>)
UnionStrInt == Generic("Union", <<StrType, IntType>>)
UnionIntStr == Generic("Union", <<IntType, StrType>>)
UnionIntFloat == Generic("Union", <<IntType, FloatType>>)
UnionListStr == Generic("Union", <<ListOfInt, StrType>>)
OptListOfInt == Generic("Union", <<ListOfInt, NoneTypeT>>)

\* type[int]: the classes int and its subclasses.
TypeOfInt == Generic("type", <<IntType>>)

\* Declarations whose arity is not what their container family requires:
\* set[()], set[int, str], dict[int], list[int, str].
MalformedTypes ==
    {Generic("set", <<>>), Generic("set", <<IntType, StrType>>),
     Generic("dict", <<IntType>>), Generic("list", <<IntType, StrType>>)}

Types ==
    {IntType, StrType, FloatType, BoolType, ListPlainType, AnyType,
     Plain("Inner"), Plain("Opt"), Plain("Strict"), Plain("Pair"),
     ListOfInt, Generic("list", <<Plain("Inner")>>), BareGeneric("list"),
     Generic("set", <<IntType>>), SetOfList,
     Generic("dict", <<StrType, IntType>>), Generic("dict", <<ListPlainType, IntType>>),
     Generic("dict", <<IntType, StrType>>),
     Generic("tuple", <<IntType, StrType>>), Generic("tuple", <<IntType>>),
     UnionStrInt, UnionIntStr, UnionIntFloat, OptInt, UnionListStr, OptListOfInt,
     Generic("Union", <<Plain("Inner"), IntType>>),
     Generic("Literal", <<IntType>>), TypeOfInt}
    \cup MalformedTypes

Scalars ==
    {None, VBool(TRUE), VInt(5), VStr("5"), VStr("x"), VFloat(55),
     VInst("Inner", <<<<"x", VInt(5)>>>>)}

Elems == {VInt(5), VStr("5"), VStr("x"), VTuple(<<VInt(5)>>)}
DictKeyElems == {VInt(5), VStr("x"), VTuple(<<VInt(5)>>)}
DictValElems == {VInt(5), VStr("x")}

ElemSeqs == UNION {[1..n -> Elems] : n \in 0..MaxLen}
DistinctSeqs == {q \in ElemSeqs : \A i, j \in 1..Len(q) : i # j => q[i] # q[j]}
EntrySeqs ==
    {q \in UNION {[1..n -> DictKeyElems \X DictValElems] : n \in 0..MaxLen} :
        \A i, j \in 1..Len(q) : i # j => q[i][1] # q[j][1]}

\* ["1", 2, "x"]
MixedList == VList(<<VStr("1"), VInt(2), VStr("x")>>)

Values ==
    Scalars \cup {VList(q) : q \in ElemSeqs} \cup {VTuple(q) : q \in ElemSeqs}
            \cup {VSet(q) : q \in DistinctSeqs} \cup {VDict(q) : q \in EntrySeqs}
            \cup {MixedList}

\* A __vldt_config__.deserializer table of one converter, from the runtime
\* type named from to the declared type to.
Registry(to, from, fn) == create_deserializers(<<[to |-> to, from |-> from, fn |-> fn]>>)

\* int from bool: applies to values that are instances of int already.
BoolToInt == Registry(IntType, "bool", VFunc("const", "", VInt(7)))

Registries ==
    {Nothing,
     Registry(IntType, "str", VFunc("const", "", VInt(7))),
     Registry(IntType, "str", VFunc("raise", "bad", None)),
     Registry(IntType, "str", VFunc("const", "", VStr("q"))),
     Registry(StrType, "int", VFunc("const", "", VStr("q"))),
     BoolToInt}

\* The attribute a field may have on its class.
FieldAttrs ==
    {Nothing, VInt(7),
     FieldObj(None, VLDTUndefined, None),
     FieldObj(VStr("x"), VLDTUndefined, None),
     FieldObj(VList(<<VStr("y"), VStr("x")>>), VLDTUndefined, None),
     FieldObj(None, VInt(7), None),
     FieldObj(None, VStr("q"), None),
     FieldObj(None, VInt(7), VFunc("const", "", VInt(9))),
     FieldObj(None, VInt(7), VInt(1)),
     FieldObj(None, VLDTUndefined, VFunc("raise", "nope", None))}

Ident == VFunc("ident", "", None)
Raises(m) == VFunc("raise", m, None)
Returns(v) == VFunc("const", "", v)

ModelBeforeSets ==
    {<<>>, <<Ident>>, <<Returns(VDict(<<<<VStr("a"), VStr("x")>>>>))>>,
     <<VInt(0), Raises("mb"), Ident>>}
FieldBeforeSets ==
    {<<>>, <<<<"a", <<Returns(VInt(5))>>>>>>,
     <<<<"a", <<Raises("fb"), Ident>>>>, <<"b", <<Ident>>>>>>}
FieldAfterSets ==
    {<<>>, <<<<"b", <<Ident>>>>, <<"a", <<Ident, Returns(VStr("x"))>>>>>>,
     <<<<"b", <<Ident>>>>, <<"a", <<Ident, Returns(VStr("5"))>>>>>>,
     <<<<"a", <<Raises("fa"), Ident>>>>, <<"b", <<Ident>>>>>>,
     <<<<"zz", <<Ident>>>>, <<"c", <<Ident>>>>>>}
ModelAfterSets == {<<>>, <<Ident>>, <<Raises("ma"), Ident>>}

FlagSets ==
    {AllFlags, <<FALSE, TRUE, TRUE, TRUE>>, <<TRUE, FALSE, TRUE, TRUE>>,
     <<TRUE, TRUE, FALSE, TRUE>>, <<TRUE, TRUE, TRUE, FALSE>>}

\* class Model(DataModel): a: Strict; b: int
NestedFirst ==
    Decl("Model", <<FieldDecl("a", Plain("Strict"), FALSE, Nothing),
                    FieldDecl("b", IntType, FALSE, Nothing)>>,
         NoValidators, NoFlags, Nothing)

\* Classes that differ in how field a is declared.
FieldClasses ==
    {Decl("Model", <<FieldDecl("a", ta, FALSE, aa), FieldDecl("b", tb, FALSE, Nothing)>>,
          NoValidators, NoFlags, Nothing) :
        ta \in {IntType, OptInt, OptListOfInt}, aa \in FieldAttrs,
        tb \in {IntType, OptInt, SetOfList, Plain("Inner"), Plain("Strict")}}
    \cup {[InnerDecl EXCEPT !.name = "Model", !.has_annotations = FALSE],
          [StrictDecl EXCEPT !.name = "Model", !.has_validators = FALSE],
          NestedFirst}

\* Classes that differ in their validators and flags.
ValidatorClasses ==
    {Decl("Model",
          <<FieldDecl("c", IntType, TRUE, VInt(1)), FieldDecl("a", IntType, FALSE, Nothing),
            FieldDecl("b", SetOfList, FALSE, VSet(<<>>))>>,
          [model_before |-> mb, field_before |-> fb, field_after |-> fa, model_after |-> ma],
          fl, Nothing) :
        mb \in ModelBeforeSets, fb \in FieldBeforeSets, fa \in FieldAfterSets,
        ma \in ModelAfterSets, fl \in FlagSets}

KwA(v) == <<VStr("a"), v>>
KwB(v) == <<VStr("b"), v>>
UnhashableSet == VSet(<<VTuple(<<VInt(5)>>)>>)

FieldKwds ==
    {Nothing, VDict(<<>>), VDict(<<KwA(VInt(5))>>), VDict(<<KwB(VInt(6))>>),
     VDict(<<KwA(VInt(5)), KwB(VInt(6))>>), VDict(<<KwA(VStr("x")), KwB(VStr("x"))>>),
     VDict(<<KwA(VStr("5")), KwB(VInt(6))>>),
     VDict(<<KwA(VInt(5)), <<VStr("x"), VInt(6)>>, KwB(VInt(6))>>),
     VDict(<<<<VStr("x"), VInt(1)>>, <<VStr("y"), VInt(2)>>, KwB(VInt(6))>>),
     VDict(<<<<VStr("x"), VStr("x")>>, KwA(VInt(5))>>),
     VDict(<<KwA(VInt(5)), KwB(UnhashableSet)>>),
     VDict(<<KwA(VStr("x")), KwB(UnhashableSet)>>),
     VDict(<<KwB(UnhashableSet)>>),
     VDict(<<KwA(VInt(5)), KwB(VDict(<<<<VStr("x"), VInt(5)>>>>))>>),
     VDict(<<KwA(VInt(5)), KwB(VDict(<<<<VStr("x"), VStr("x")>>>>))>>),
     VDict(<<KwA(VInt(5)), KwB(VDict(<<>>))>>),
     VDict(<<KwA(None)>>), VDict(<<KwA(None), KwB(VInt(6))>>),
     VDict(<<KwA(VDict(<<>>)), KwB(VStr("x"))>>),
     VDict(<<KwA(VDict(<<>>)), KwB(VInt(6))>>)}

ValidatorKwds ==
    {Nothing, VDict(<<>>), VDict(<<KwA(VInt(5))>>), VDict(<<KwA(VStr("x"))>>),
     VDict(<<KwA(VInt(5)), KwB(UnhashableSet)>>),
     VDict(<<KwA(VInt(5)), KwB(VSet(<<>>))>>)}

\* Classes whose field a has the alias x (or the aliases y and x) and
\* field-before validators keyed by the field names.
AliasValidatorClasses ==
    {Decl("Model",
          <<FieldDecl("a", IntType, FALSE, aa), FieldDecl("b", IntType, FALSE, VInt(1))>>,
          [model_before |-> <<>>, field_before |-> fb, field_after |-> <<>>,
           model_after |-> <<>>],
          AllFlags, Nothing) :
        aa \in {FieldObj(VStr("x"), VLDTUndefined, None),
                FieldObj(VList(<<VStr("y"), VStr("x")>>), VLDTUndefined, None)},
        fb \in {<<<<"a", <<Returns(VInt(5))>>>>>>,
                <<<<"b", <<Returns(VInt(9))>>>>, <<"a", <<Ident, Returns(VStr("7"))>>>>>>}}

AliasValidatorKwds ==
    {VDict(<<>>), VDict(<<KwA(VInt(1))>>), VDict(<<<<VStr("x"), VInt(2)>>>>),
     VDict(<<KwA(VInt(1)), <<VStr("x"), VInt(2)>>>>),
     VDict(<<<<VStr("x"), VInt(2)>>, KwA(VInt(1)), KwB(VInt(3))>>)}

-----------------------------------------------------------------------------
(* Record construction, one stage of DataModel_init per step.              *)

StartsWith(str, prefix) ==
    Len(str) >= Len(prefix) /\ SubSeq(str, 1, Len(prefix)) = prefix

\* The number of messages a collector holds at path or below it.
RECURSIVE EntriesUnder(_, _, _)
EntriesUnder(c, path, i) ==
    IF i > Len(c.members) THEN 0
    ELSE (IF c.members[i].key = path \/ StartsWith(c.members[i].key, path \o ".")
          THEN CountMsgs(c.members[i].val) ELSE 0)
         + EntriesUnder(c, path, i + 1)

Schema == get_schema_cached(cls)

\* A collector that already holds an entry at the path of the call.
UsedDoc == add_error(NullDoc, "f", "earlier")

Idle == [val |-> Nothing, coll |-> NullDoc, calls |-> <<>>]

\* No thread is in get_schema_cached.
NoCache == [slot |-> 0]

\* Neither to_dict nor __deepcopy__ has been called.
NoCodec == [given |-> Nothing, dict |-> [called |-> FALSE, val |-> Nothing],
            copy |-> [called |-> FALSE, cls |-> "", val |-> Nothing]]

Init ==
    /\ pc = "start"
    /\ \/ cls \in FieldClasses /\ kwds \in FieldKwds
       \/ cls \in ValidatorClasses /\ kwds \in ValidatorKwds
       \/ cls \in AliasValidatorClasses /\ kwds \in AliasValidatorKwds
    /\ fi = 0
    /\ fields = <<>>
    /\ collector = NullDoc
    /\ exc = NoExc
    /\ log = <<>>
    /\ steps = <<>>
    /\ node = IntType
    /\ value = None
    /\ registry = Nothing
    /\ before = NullDoc
    /\ out = Idle
    /\ cache = NoCache
    /\ codec = NoCodec

\* What a stage leaves behind.
Stage(r, next) ==
    /\ pc' = (IF r.rc = 0 THEN next ELSE IF r.rc = -1 THEN "failed" ELSE "crashed")
    /\ kwds' = r.kwds
    /\ fields' = r.fields
    /\ exc' = r.exc
    /\ log' = r.log

\* get_schema_cached and the capsule check.
GetSchema ==
    /\ pc = "start"
    /\ IF Schema = Nothing
       THEN /\ pc' = "failed"
            /\ exc' = Exc("TypeError", TextMsg("Could not compile model schema"))
       ELSE /\ pc' = "model_before"
            /\ exc' = exc
    /\ UNCHANGED <<cls, kwds, fi, fields, collector, log, steps,
                   node, value, registry, before, out, cache, codec>>

ModelBefore ==
    /\ pc = "model_before"
    /\ Stage(run_model_before_validators(Schema, kwds, fields, log), "field_before")
    /\ UNCHANGED <<cls, fi, collector, steps, node, value, registry, before, out, cache, codec>>

FieldBefore ==
    /\ pc = "field_before"
    /\ Stage(run_field_before_validators(Schema, kwds, fields, log), "fields")
    /\ fi' = (IF pc' = "fields" THEN 1 ELSE fi)
    /\ UNCHANGED <<cls, collector, steps, node, value, registry, before, out, cache, codec>>

\* What an iteration of the field loop leaves behind, f being what
\* init_field did for the field called name.
Iterated(name, f) ==
    /\ fields' = f.fields
    /\ collector' = f.coll
    /\ log' = log \o f.log
    /\ steps' = Append(steps,
           [name |-> name, via |-> f.via, value |-> f.value,
            validated |-> f.validated, failed |-> f.failed,
            stored |-> FieldGet(f.fields, name),
            added |-> EntriesUnder(f.coll, name, 1) - EntriesUnder(collector, name, 1)])

\* One iteration of the field loop.
FieldStep ==
    /\ pc = "fields"
    /\ fi <= Schema.num_fields
    /\ Iterated(Schema.fields[fi].field_name,
                init_field(Schema, fi, kwds, fields, collector))
    /\ fi' = fi + 1
    /\ UNCHANGED <<pc, cls, kwds, exc, node, value, registry, before, out, cache, codec>>

\* The has_errors check after the loop.
CheckErrors ==
    /\ pc = "fields"
    /\ fi > Schema.num_fields
    /\ IF has_errors(collector)
       THEN /\ pc' = "failed"
            /\ exc' = Exc("ErrorTree", to_json(collector))
       ELSE /\ pc' = "field_after"
            /\ exc' = exc
    /\ UNCHANGED <<cls, kwds, fi, fields, collector, log, steps,
                   node, value, registry, before, out, cache, codec>>

FieldAfter ==
    /\ pc = "field_after"
    /\ Stage(run_field_after_validators(cls, Schema, kwds, fields, log), "model_after")
    /\ UNCHANGED <<cls, fi, collector, steps, node, value, registry, before, out, cache, codec>>

ModelAfter ==
    /\ pc = "model_after"
    /\ Stage(run_model_after_validators(Schema, kwds, fields, log), "done")
    /\ UNCHANGED <<cls, fi, collector, steps, node, value, registry, before, out, cache, codec>>

Next ==
    \/ GetSchema
    \/ ModelBefore
    \/ FieldBefore
    \/ FieldStep
    \/ CheckErrors
    \/ FieldAfter
    \/ ModelAfter

Spec == Init /\ [][Next]_vars

-----------------------------------------------------------------------------
(* Record construction followed by attribute assignments on the instance   *)
(* built.  out holds the last assignment: the attribute name, the value     *)
(* given and what DataModel_setattro returned.                             *)

\* Classes with one class variable c, the fields a: int and b: Set[list],
\* and field-after validators.
AttrClasses ==
    {Decl("Model",
          <<FieldDecl("c", IntType, TRUE, VInt(1)), FieldDecl("a", IntType, FALSE, Nothing),
            FieldDecl("b", SetOfList, FALSE, VSet(<<>>))>>,
          [model_before |-> <<>>, field_before |-> <<>>, field_after |-> fa,
           model_after |-> <<>>],
          AllFlags, Nothing) :
        fa \in FieldAfterSets}

AttrNames == {"a", "b", "c", "zz"}
AttrValues == {VInt(6), VStr("7"), VStr("x"), UnhashableSet, VSet(<<>>)}

InitAttr ==
    /\ pc = "start"
    /\ cls \in AttrClasses
    /\ kwds \in ValidatorKwds
    /\ fi = 0
    /\ fields = <<>>
    /\ collector = NullDoc
    /\ exc = NoExc
    /\ log = <<>>
    /\ steps = <<>>
    /\ node = IntType
    /\ value = None
    /\ registry = Nothing
    /\ before = NullDoc
    /\ out = Idle
    /\ cache = NoCache
    /\ codec = NoCodec

\* instance.name = value on the instance a successful construction returned:
\* the exception of a failed assignment is raised to the caller, who goes on.
SetAttr ==
    /\ pc = "done"
    /\ \E name \in AttrNames, value_ \in AttrValues :
           /\ fields' = DataModel_setattro(Schema, fields, name, value_).fields
           /\ exc' = DataModel_setattro(Schema, fields, name, value_).exc
           /\ out' = [name |-> name, val |-> value_,
                      rc |-> DataModel_setattro(Schema, fields, name, value_).rc]
    /\ UNCHANGED <<pc, cls, kwds, fi, collector, log, steps, node, value,
                   registry, before, cache, codec>>

NextAttr == Next \/ SetAttr

SpecAttr == InitAttr /\ [][NextAttr]_vars

-----------------------------------------------------------------------------
(* validate_and_convert on its own: one call per behaviour.                *)

InitVal ==
    /\ pc = "call"
    /\ cls = InnerDecl
    /\ kwds = Nothing
    /\ fi = 0
    /\ fields = <<>>
    /\ collector \in {NullDoc, UsedDoc}
    /\ before = collector
    /\ exc = NoExc
    /\ log = <<>>
    /\ steps = <<>>
    /\ node \in Types
    /\ value \in Values
    /\ registry \in Registries
    /\ out = Idle
    /\ cache = NoCache
    /\ codec = NoCodec

Validate ==
    /\ pc = "call"
    /\ out' = validate_and_convert(value, compile_type_schema(node), collector,
                                   "f", registry)
    /\ collector' = out'.coll
    /\ pc' = (IF out'.val = Segfault THEN "crashed" ELSE "returned")
    /\ UNCHANGED <<cls, kwds, fi, fields, exc, log, steps, node, value,
                   registry, before, cache, codec>>

NextVal == Validate

SpecVal == InitVal /\ [][NextVal]_vars

-----------------------------------------------------------------------------
(* compile_schema of one class, one compile_type_schema call at a time.    *)
(* steps is the call stack: the declarations whose compile_type_schema     *)
(* call is still to be entered, and those whose call is still to return.   *)
(* log holds the calls entered so far; cache.types the classes that carry  *)
(* a __vldt_type_schema__ entry in their tp_dict; fields the annotations   *)
(* of the instance fields, fi the number of them compiled.                 *)

\* The most compile_type_schema calls one compilation may enter.
MaxCalls == 8

Frame(d, phase) == [type |-> d, phase |-> phase]

\* get_cached_type_schema: only a class can hold a cached node.
get_cached_type_schema(types, expected_type) ==
    IsPyType(expected_type) /\ expected_type.name \in types

\* try_cache_type_schema: only a class takes the cached node.
try_cache_type_schema(types, expected_type) ==
    IF IsPyType(expected_type) THEN types \cup {expected_type.name} ELSE types

\* A compilation that descends from a record class into the declared types
\* of its fields; C26 tells it apart from pending_args.
pending_args_and_fields(expected_type) ==
    IF IsDataModelType(expected_type)
    THEN LET fds == InstanceFields(ClassDecl(expected_type.name).annotations, 1)
         IN  [i \in 1..Len(fds) |-> fds[i].type]
    ELSE IF expected_type.origin # "none" /\ expected_type.hasargs
    THEN expected_type.args
    ELSE <<>>

\* The declarations compile_type_schema calls itself on: the __args__ of a
\* parameterized declaration (compile_args), nothing for a class or a bare
\* generic (handle_no_origin, handle_no_args).
pending_args(expected_type) ==
    IF expected_type.origin # "none" /\ expected_type.hasargs
    THEN expected_type.args
    ELSE <<>>

SchemaClasses == {NodeDecl, PingDecl, PongDecl} \cup FieldClasses

InitSchema ==
    /\ pc = "compile"
    /\ cls \in SchemaClasses
    /\ kwds = Nothing
    /\ fi = 0
    /\ fields = <<>>
    /\ collector = NullDoc
    /\ before = NullDoc
    /\ exc = NoExc
    /\ log = <<>>
    /\ steps = <<>>
    /\ node = IntType
    /\ value = None
    /\ registry = Nothing
    /\ out = Idle
    /\ cache \in {[slot |-> 0, types |-> t] : t \in {{}, {"int"}}}
    /\ codec = NoCodec

\* compile_schema up to its loop: no annotations, no schema.
CompileSchema ==
    /\ pc = "compile"
    /\ pc' = (IF cls.has_annotations THEN "fields" ELSE "failed")
    /\ fields' = (IF cls.has_annotations THEN InstanceFields(cls.annotations, 1) ELSE <<>>)
    /\ UNCHANGED <<cls, kwds, fi, collector, exc, log, steps, node, value,
                   registry, before, out, cache, codec>>

\* compile_field_schema of the next instance field calls compile_type_schema
\* on its declared type.
CompileField ==
    /\ pc = "fields"
    /\ steps = <<>>
    /\ fi < Len(fields)
    /\ fi' = fi + 1
    /\ steps' = <<Frame(fields[fi + 1].type, "enter")>>
    /\ UNCHANGED <<pc, cls, kwds, fields, collector, exc, log, node, value,
                   registry, before, out, cache, codec>>

\* compile_type_schema is entered: a cached node is returned at once,
\* otherwise the call goes on to its arguments, in order, and then to its
\* end.
EnterType ==
    /\ pc = "fields"
    /\ steps # <<>>
    /\ Head(steps).phase = "enter"
    /\ Len(log) < MaxCalls
    /\ log' = Append(log, "compile_type_schema:" \o Head(steps).type.name)
    /\ steps' = (IF get_cached_type_schema(cache.types, Head(steps).type)
                 THEN Tail(steps)
                 ELSE [i \in 1..Len(pending_args(Head(steps).type)) |->
                          Frame(pending_args(Head(steps).type)[i], "enter")]
                      \o <<Frame(Head(steps).type, "exit")>> \o Tail(steps))
    /\ UNCHANGED <<pc, cls, kwds, fi, fields, collector, exc, node, value,
                   registry, before, out, cache, codec>>

\* The end of compile_type_schema: the node is offered to the type cache and
\* returned.
ReturnType ==
    /\ pc = "fields"
    /\ steps # <<>>
    /\ Head(steps).phase = "exit"
    /\ cache' = [cache EXCEPT !.types = try_cache_type_schema(@, Head(steps).type)]
    /\ steps' = Tail(steps)
    /\ UNCHANGED <<pc, cls, kwds, fi, fields, collector, exc, log, node, value,
                   registry, before, out, codec>>

\* compile_schema after its loop: the compiled schema is returned.
SchemaCompiled ==
    /\ pc = "fields"
    /\ steps = <<>>
    /\ fi = Len(fields)
    /\ pc' = "compiled"
    /\ out' = Res(compile_schema(cls), collector, log)
    /\ UNCHANGED <<cls, kwds, fi, fields, collector, exc, log, steps, node, value,
                   registry, before, cache, codec>>

NextSchema == CompileSchema \/ CompileField \/ EnterType \/ ReturnType \/ SchemaCompiled

\* Python runs the compilation to its end: no step of it waits for another
\* thread.
SpecSchema == InitSchema /\ [][NextSchema]_vars /\ WF_vars(NextSchema)

-----------------------------------------------------------------------------
(* An ErrorCollector on its own: any sequence of add_error calls, ended by *)
(* an add_suberror call or not.  steps holds the calls made so far, as     *)
(* <<path, message>>.                                                      *)

ErrorPaths == {"a", "b", "a.0"}
ErrorMessages == {"m1", "m2"}

InitErr ==
    /\ pc = "collecting"
    /\ cls = InnerDecl
    /\ kwds = Nothing
    /\ fi = 0
    /\ fields = <<>>
    /\ collector = NullDoc
    /\ before = NullDoc
    /\ exc = NoExc
    /\ log = <<>>
    /\ steps = <<>>
    /\ node = IntType
    /\ value = None
    /\ registry = Nothing
    /\ out = Idle
    /\ cache = NoCache
    /\ codec = NoCodec

AddError ==
    /\ pc = "collecting"
    /\ Len(steps) < MaxAdds
    /\ \E path \in ErrorPaths, message \in ErrorMessages :
           /\ collector' = add_error(collector, path, message)
           /\ steps' = Append(steps, <<path, message>>)
    /\ UNCHANGED <<pc, cls, kwds, fi, fields, exc, log, node, value, registry,
                   before, out, cache, codec>>

\* What add_suberror may be given: rendered ErrorTrees of a nested
\* construction (an entry being one message or an array of messages), and
\* texts that are no rendered tree.
SubPayloads ==
    {JsonMsg(<<[key |-> "0", val |-> JStr("n1")]>>),
     JsonMsg(<<[key |-> "0", val |-> JArr(<<JStr("n1"), JStr("n2")>>)]>>),
     JsonMsg(<<[key |-> "x", val |-> JStr("n1")], [key |-> "0", val |-> JStr("n2")]>>),
     JsonMsg(<<>>),
     TextMsg("{}"), TextMsg("boom"), TextMsg("")}

\* One add_suberror call, the last call on the collector: before holds the
\* collector as the call found it, exc the payload, the last step the path.
AddSuberror ==
    /\ pc = "collecting"
    /\ \E path \in {"a", "b"}, payload \in SubPayloads :
           /\ collector' = add_suberror(collector, path, payload)
           /\ exc' = Exc("nested", payload)
           /\ steps' = Append(steps, <<path, "add_suberror">>)
    /\ before' = collector
    /\ pc' = "merged"
    /\ UNCHANGED <<cls, kwds, fi, fields, log, node, value, registry,
                   out, cache, codec>>

NextErr ==
    \/ AddError
    \/ AddSuberror

SpecErr == InitErr /\ [][NextErr]_vars

-----------------------------------------------------------------------------
(* get_schema_cached called by several threads on a class whose slot       *)
(* (__vldt_schema__ in the type's dict) is empty.  A capsule is known by   *)
(* the order in which it was made; compile_schema runs Python code (the    *)
(* repr and the attributes of annotations), so threads switch between the  *)
(* lookup of the slot and the store into it.                               *)
(*   slot      the capsule the slot holds, 0 when it holds none,           *)
(*   pc        where each thread is,                                       *)
(*   capsule   the capsule each thread holds, 0 when none,                 *)
(*   refs      the reference count of each capsule,                        *)
(*   freed     the capsules destroyed, with their SchemaCache,             *)
(*   published the capsules stored into the slot, in order,                *)
(*   made      the number of capsules made.                                *)

Threads == 1..NThreads

\* Py_DECREF(capsule): the capsule destructor deletes the SchemaCache when
\* the last reference goes.
Py_DECREF(c, id) ==
    [c EXCEPT !.refs[id] = @ - 1,
              !.freed = IF c.refs[id] = 1 THEN @ \cup {id} ELSE @]

InitConc ==
    /\ pc = "threads"
    /\ cls \in {PairDecl, OptDecl, [InnerDecl EXCEPT !.has_annotations = FALSE]}
    /\ kwds = Nothing
    /\ fi = 0
    /\ fields = <<>>
    /\ collector = NullDoc
    /\ before = NullDoc
    /\ exc = NoExc
    /\ log = <<>>
    /\ steps = <<>>
    /\ node = IntType
    /\ value = None
    /\ registry = Nothing
    /\ out = Idle
    /\ cache = [slot |-> 0,
                pc |-> [t \in Threads |-> "lookup"],
                capsule |-> [t \in Threads |-> 0],
                refs |-> [id \in Threads |-> 0],
                freed |-> {},
                published |-> <<>>,
                made |-> 0]
    /\ codec = NoCodec

Others == <<pc, cls, kwds, fi, fields, collector, exc, log, steps,
            node, value, registry, before, out, codec>>

\* PyDict_GetItem(type_dict, unified_schema_key): a capsule found is
\* returned with a reference of its own.
Lookup(t) ==
    /\ cache.pc[t] = "lookup"
    /\ cache' = IF cache.slot # 0
                THEN [cache EXCEPT !.capsule[t] = cache.slot,
                                   !.refs[cache.slot] = @ + 1,
                                   !.pc[t] = "returned"]
                ELSE [cache EXCEPT !.pc[t] = "compile"]
    /\ UNCHANGED Others

\* capsule = compile_schema(cls); nullptr is returned when it fails.
Compile(t) ==
    /\ cache.pc[t] = "compile"
    /\ cache' = IF compile_schema(cls) = Nothing
                THEN [cache EXCEPT !.pc[t] = "failed"]
                ELSE [cache EXCEPT !.made = @ + 1,
                                   !.capsule[t] = cache.made + 1,
                                   !.refs[cache.made + 1] = 1,
                                   !.pc[t] = "publish"]
    /\ UNCHANGED Others

\* The slot after PyDict_SetItem(type_dict, unified_schema_key, id): the
\* value stored gains a reference, the value replaced loses one.
PyDict_SetItem(c, id) ==
    LET stored == [c EXCEPT !.slot = id,
                            !.refs[id] = @ + 1,
                            !.published = Append(@, id)]
    IN  IF c.slot # 0 THEN Py_DECREF(stored, c.slot) ELSE stored

\* PyDict_SetItem of the thread's own capsule, whatever the slot holds by
\* now; the thread returns its own capsule.
Publish(t) ==
    /\ cache.pc[t] = "publish"
    /\ cache' = [PyDict_SetItem(cache, cache.capsule[t]) EXCEPT !.pc[t] = "returned"]
    /\ UNCHANGED Others

\* The caller takes the SchemaCache pointer out of the capsule returned and
\* drops its reference to the capsule.
Adopt(t) ==
    /\ cache.pc[t] = "returned"
    /\ cache' = [Py_DECREF(cache, cache.capsule[t]) EXCEPT !.pc[t] = "using"]
    /\ UNCHANGED Others

\* The caller works through its SchemaCache pointer; the pointer dangles
\* when the capsule was destroyed, and the read may then go either way.
Use(t) ==
    /\ cache.pc[t] = "using"
    /\ \E outcome \in (IF cache.capsule[t] \in cache.freed
                       THEN {"done", "crashed"} ELSE {"done"}) :
           cache' = [cache EXCEPT !.pc[t] = outcome]
    /\ UNCHANGED Others

NextConc ==
    \E t \in Threads :
        \/ Lookup(t)
        \/ Compile(t)
        \/ Publish(t)
        \/ Adopt(t)
        \/ Use(t)

SpecConc == InitConc /\ [][NextConc]_vars

-----------------------------------------------------------------------------
(* from_dict, then to_dict and __deepcopy__ on the instance built.         *)
(* from_dict calls the class with the mapping as keywords, which is the    *)
(* construction above.                                                     *)

\* Encoders of a __vldt_config__.dict_serializer.
IntEncoder == VDict(<<<<VStr("int"), Returns(VStr("s"))>>>>)
DecliningEncoder == VDict(<<<<VStr("int"), Returns(NotImplemented)>>>>)

AliasX == FieldObj(VStr("x"), VLDTUndefined, None)

\* Classes that differ in what to_dict and __deepcopy__ meet.
CodecClasses ==
    {Decl("Model", <<FieldDecl("a", ta, FALSE, aa), FieldDecl("b", tb, FALSE, Nothing)>>,
          NoValidators, NoFlags, cfg) :
        ta \in {IntType, AnyType}, aa \in {Nothing, AliasX},
        tb \in {OptInt, ListOfInt, SetOfList, Plain("Inner"),
                Generic("list", <<Plain("Inner")>>)},
        cfg \in {Nothing, Config(IntEncoder, Nothing), Config(DecliningEncoder, Nothing),
                 Config(None, Nothing)}}

InnerMap(v) == VDict(<<<<VStr("x"), v>>>>)

CodecKwds ==
    {VDict(<<KwA(VStr("5")), KwB(VInt(6))>>),
     VDict(<<KwB(VStr("5")), KwA(VInt(5))>>),
     VDict(<<<<VStr("x"), VStr("5")>>, KwB(VInt(6))>>),
     VDict(<<KwA(VInt(5))>>),
     VDict(<<KwA(VInt(5)), KwB(VList(<<VStr("5"), VInt(5)>>))>>),
     VDict(<<KwA(VInt(5)), KwB(VSet(<<VTuple(<<VInt(5)>>)>>))>>),
     VDict(<<KwA(VStr("5")), KwB(InnerMap(VStr("5")))>>),
     VDict(<<KwA(VInt(5)), KwB(VInst("Inner", <<<<"x", VInt(5)>>>>))>>),
     VDict(<<KwA(VInt(5)), KwB(VList(<<InnerMap(VStr("5")), InnerMap(VInt(5))>>))>>),
     VDict(<<KwA(VObj("none")), KwB(VInt(6))>>),
     VDict(<<KwA(VObj("copy")), KwB(InnerMap(VInt(5)))>>),
     VDict(<<KwA(VObj("raise")), KwB(VList(<<VInt(5)>>))>>),
     VDict(<<KwA(VList(<<VInt(5)>>)), KwB(None)>>),
     VDict(<<KwA(VList(<<VInt(5)>>)), KwB(InnerMap(VInt(5)))>>)}

InitCodec ==
    /\ pc = "start"
    /\ \/ cls \in FieldClasses /\ kwds \in FieldKwds \ {Nothing}
       \/ cls \in ValidatorClasses /\ kwds \in ValidatorKwds \ {Nothing}
       \/ cls \in CodecClasses /\ kwds \in CodecKwds
    /\ fi = 0
    /\ fields = <<>>
    /\ collector = NullDoc
    /\ exc = NoExc
    /\ log = <<>>
    /\ steps = <<>>
    /\ node = IntType
    /\ value = None
    /\ registry = Nothing
    /\ before = NullDoc
    /\ out = Idle
    /\ cache = NoCache
    /\ codec = [NoCodec EXCEPT !.given = kwds]

\* to_dict on the instance from_dict returned.
ToDict ==
    /\ pc = "done"
    /\ ~codec.dict.called
    /\ codec' = [codec EXCEPT !.dict = [called |-> TRUE,
                                        val |-> convert_datamodel(cls, fields)]]
    /\ UNCHANGED <<pc, cls, kwds, fi, fields, collector, exc, log, steps,
                   node, value, registry, before, out, cache>>

\* __deepcopy__ on the instance from_dict returned: the new object is
\* allocated with the type of the source, without running its constructor.
DeepCopy ==
    /\ pc = "done"
    /\ ~codec.copy.called
    /\ codec' = [codec EXCEPT !.copy = [called |-> TRUE, cls |-> cls.name,
                                        val |-> DataModel_deepcopy(fields)]]
    /\ UNCHANGED <<pc, cls, kwds, fi, fields, collector, exc, log, steps,
                   node, value, registry, before, out, cache>>

NextCodec ==
    \/ Next
    \/ ToDict
    \/ DeepCopy

SpecCodec == InitCodec /\ [][NextCodec]_vars

-----------------------------------------------------------------------------

(* Properties of validate_and_convert (under SpecVal).                     *)

Returned == pc = "returned"

\* C1: whenever validate_and_convert returns nothing, the collector holds an
\* entry at the path of the call, or below it, that it did not hold before.
C1_FailureIsRecorded ==
    (Returned /\ out.val = Nothing)
        => EntriesUnder(collector, "f", 1) > EntriesUnder(before, "f", 1)

\* A failure that left the collector as it was: a set of list from a set
\* holding a tuple.
C1_SilentFailure ==
    /\ Returned
    /\ node = SetOfList
    /\ value = UnhashableSet
    /\ out.val = Nothing
    /\ collector = before

\* Does v conform to the shape ts declares, all the way down?
RECURSIVE Conforms(_, _)
Conforms(v, ts) ==
    IF ts.expected_type = AnyType THEN TRUE
    ELSE IF ts.container_kind \in {CK_LIST, CK_SET}
    THEN /\ v.k = (IF ts.container_kind = CK_LIST THEN "list" ELSE "set")
         /\ \A i \in 1..Len(v.v) : Conforms(v.v[i], ts.args[1])
    ELSE IF ts.container_kind = CK_DICT
    THEN /\ v.k = "dict"
         /\ \A i \in 1..Len(v.v) : /\ Conforms(v.v[i][1], ts.args[1])
                                   /\ Conforms(v.v[i][2], ts.args[2])
    ELSE IF ts.container_kind = CK_TUPLE
    THEN /\ v.k = "tuple"
         /\ Len(v.v) = ts.num_args
         /\ \A i \in 1..Len(v.v) : Conforms(v.v[i], ts.args[i])
    ELSE IF ts.container_kind = CK_UNION
    THEN \/ v = None /\ ts.is_optional
         \/ \E i \in 1..ts.num_args : Conforms(v, ts.args[i])
    ELSE IF ts.origin = "none"
    THEN PyObject_IsInstance(v, ts.expected_type) = 1
    ELSE v.k = ts.origin

\* C2: whenever validate_and_convert returns a value, the value conforms to
\* the declared shape of the node, recursively.
C2_AcceptedConforms ==
    (Returned /\ out.val # Nothing) => Conforms(out.val, compile_type_schema(node))

\* A list of str accepted, unvalidated, as Union[List[int], str].
C2_UnsoundUnion ==
    /\ Returned
    /\ node = UnionListStr
    /\ value = VList(<<VStr("x")>>)
    /\ out.val = value

\* Is v an instance of the declared type of alternative d, or of its origin
\* when d is generic?
ExactAlternative(v, d) ==
    IF d.origin = "none" THEN IsInstanceOfName(v, d.name) = 1
    ELSE v.k = normalize_origin(d.origin)

IsUnion(d) == d.origin = "Union"

\* C9: a value that is an instance of some alternative of a union is
\* returned as it is, whatever the position of the alternative, and nothing
\* is called to convert it.
C9_ExactMatchWins ==
    (Returned /\ IsUnion(node) /\ \E i \in 1..Len(node.args) :
                                      ExactAlternative(value, node.args[i]))
        => /\ out.val = value
           /\ out.calls = <<>>
           /\ collector = before

\* 5 against Union[str, int] came back as the integer 5.
C9_Witness ==
    /\ Returned
    /\ node = UnionStrInt
    /\ value = VInt(5)
    /\ out.val = VInt(5)

\* C10, as stated: "5" against Union[int, str] yields the integer 5.
C10_AsStated ==
    (Returned /\ node = UnionIntStr /\ value = VStr("5")) => out.val = VInt(5)

\* C10: "5" against Union[int, str] matches str in the exact pass and comes
\* back as the string "5", nothing being called; the coercion pass runs,
\* in declared order, only when no alternative matches, as for "5" against
\* Union[int, float], where int("5") yields 5 before float is tried.
C10_StringStaysString ==
    /\ (Returned /\ node = UnionIntStr /\ value = VStr("5"))
           => (out.val = VStr("5") /\ out.calls = <<>>)
    /\ (Returned /\ node = UnionIntFloat /\ value = VStr("5") /\ registry = Nothing)
           => (out.val = VInt(5) /\ out.calls = <<"ctor:int">>)

\* "5" against Union[int, str] came back as the string "5".
C10_Witness ==
    /\ Returned
    /\ node = UnionIntStr
    /\ value = VStr("5")
    /\ out.val = VStr("5")

\* The messages a collector holds at path, in the order they were added.
MessagesAt(c, path) ==
    IF ~HasMember(c, path) THEN <<>>
    ELSE LET val == c.members[MemberIndex(c, path)].val
         IN  IF val.t = "a" THEN val.a ELSE <<val>>

\* The paths of a collector, in the order of their first occurrence.
PathsOf(c) == [i \in 1..Len(c.members) |-> c.members[i].key]

\* What the alternatives of the union recorded in the scratch collector of
\* the second pass.
UnionScratch ==
    validate_union_coerce(value, compile_type_schema(node), 1, NullDoc, "f",
                          registry, <<>>).coll

\* C11: when no alternative of a union succeeds in either pass, the caller's
\* collector gains exactly one message, at the path of the union, and no
\* path or message of the scratch collector of the alternatives; when an
\* alternative succeeds, the caller's collector is as it was.
C11_UnionErrorsAreScratch ==
    (Returned /\ IsUnion(node)) =>
        IF out.val = Nothing
        THEN /\ PathsOf(collector) = <<"f">>
             /\ MessagesAt(collector, "f")
                    = Append(MessagesAt(before, "f"),
                             JStr("Value did not match any candidate in Union: got "
                                  \o TypeNameOf(value)))
        ELSE collector = before

\* {"x": "x"} against Union[Inner, int]: the alternatives left entries at
\* f.x and f in the scratch collector, the caller got the one at f.
C11_Witness ==
    /\ Returned
    /\ node = Generic("Union", <<Plain("Inner"), IntType>>)
    /\ value = VDict(<<<<VStr("x"), VStr("x")>>>>)
    /\ out.val = Nothing
    /\ PathsOf(UnionScratch) = <<"f.x", "f">>
    /\ PathsOf(collector) = <<"f">>
    /\ before = NullDoc

\* C13: a value that is an instance of the plain type declared comes back
\* as it is, with nothing recorded, no registry lookup and no constructor or
\* converter call.
C13_InstancePassesThrough ==
    (Returned /\ node.origin = "none" /\ PyObject_IsInstance(value, node) = 1)
        => /\ out.val = value
           /\ out.calls = <<>>
           /\ collector = before

\* True against int, the registry holding a converter from bool to int:
\* True came back, the converter was not called.
C13_Witness ==
    /\ Returned
    /\ node = IntType
    /\ value = VBool(TRUE)
    /\ registry = BoolToInt
    /\ out.val = VBool(TRUE)
    /\ out.calls = <<>>

\* The call went down the plain-value path with a value that is no instance
\* of the declared type.
PlainCall ==
    /\ Returned
    /\ node.origin = "none"
    /\ node # AnyType
    /\ compile_type_schema(node).container_kind = CK_NONE
    /\ ~(compile_type_schema(node).is_data_model /\ value.k = "dict")
    /\ PyObject_IsInstance(value, node) = 0

\* The registry entries for exactly (declared type, runtime type of value).
ExactEntries ==
    IF registry = Nothing THEN {}
    ELSE {i \in 1..Len(registry.v) :
             registry.v[i].to = node /\ registry.v[i].from = TypeNameOf(value)}

\* What the converter of the exact entry returns (Nothing when it raises).
ConverterResult ==
    CallFunc(registry.v[CHOOSE i \in ExactEntries : TRUE].fn, value)

ConverterAccepted ==
    /\ ExactEntries # {}
    /\ ConverterResult # Nothing
    /\ PyObject_IsInstance(ConverterResult, node) = 1

\* The same call with no registry.
PlainOutcome ==
    validate_and_convert(value, compile_type_schema(node), before, "f", Nothing)

\* C20: the converter is called only for an entry registered for exactly
\* the declared type and the runtime type of the value; what it returns is
\* the result when it is an instance of the declared type; in every other
\* case (no entry, the converter raises, it returns something else) the
\* value returned and the errors recorded are those of the same call
\* without a registry.
C20_RegistryExactPair ==
    PlainCall =>
        /\ (\E i \in 1..Len(out.calls) : out.calls[i] = "deserializer")
               <=> ExactEntries # {}
        /\ IF ConverterAccepted
           THEN out.val = ConverterResult /\ collector = before
           ELSE out.val = PlainOutcome.val /\ collector = PlainOutcome.coll

\* True against str with a converter registered from int to str: bool is a
\* subclass of int, yet the converter is not called and str(True) comes back.
C20_Witness ==
    /\ PlainCall
    /\ node = StrType
    /\ value = VBool(TRUE)
    /\ registry = Registry(StrType, "int", VFunc("const", "", VStr("q")))
    /\ out.calls # <<>>
    /\ out.calls[1] = "get_deserializer"
    /\ out.val = PlainOutcome.val
    /\ out.val # VStr("q")

\* "x" against int with a converter from str that returns a string: the
\* result is discarded and the failure of the plain path is recorded.
C20_Discarded ==
    /\ PlainCall
    /\ node = IntType
    /\ value = VStr("x")
    /\ registry = Registry(IntType, "str", VFunc("const", "", VStr("q")))
    /\ out.val = Nothing
    /\ collector = PlainOutcome.coll
    /\ collector # before

\* Is the node a list with one declared element type, given a list?
ListCall == node.origin = "list" /\ node.hasargs /\ Len(node.args) = 1 /\ value.k = "list"

\* Element i (0-based) of the list, validated on its own.
ElementAlone(i) ==
    validate_and_convert(value.v[i + 1], compile_type_schema(node.args[1]), NullDoc,
                         "f." \o ToString(i), registry)

\* The 0-based indices of the elements that fail on their own.
FailingIndices == {i \in 0..(Len(value.v) - 1) : ElementAlone(i).val = Nothing}

FirstFailing == CHOOSE i \in FailingIndices : \A j \in FailingIndices : i <= j

\* What the call recorded at path or below it.
AddedUnder(path) == EntriesUnder(collector, path, 1) - EntriesUnder(before, path, 1)

\* The calls made for the elements 0..i, in order.
RECURSIVE ElementCalls(_)
ElementCalls(i) ==
    IF i < 0 THEN <<>> ELSE ElementCalls(i - 1) \o ElementAlone(i).calls

\* C14, as stated: every element of the list is attempted, and every
\* failing index has an error at its path.
C14_AsStated ==
    (Returned /\ ListCall) =>
        \A i \in FailingIndices : AddedUnder("f." \o ToString(i)) > 0

\* C14: the elements of a list are validated in index order up to the first
\* that fails; the list then fails as a whole with what that element recorded
\* at its path, and no later element is attempted or gets an entry.  A list
\* whose elements all pass is rebuilt from the converted elements with
\* nothing recorded.  ["1", 2, "x"] against List[int] fails with the one
\* entry f.2, the elements 0 and 1 having been converted (no converter from
\* str being registered).
C14_StopsAtFirstFailure ==
    /\ (Returned /\ ListCall) =>
         IF FailingIndices = {}
         THEN /\ out.val = VList([k \in 1..Len(value.v) |-> ElementAlone(k - 1).val])
              /\ collector = before
         ELSE /\ out.val = Nothing
              /\ \A i \in 0..(Len(value.v) - 1) :
                     AddedUnder("f." \o ToString(i)) > 0 <=> i = FirstFailing
              /\ AddedUnder("f") = AddedUnder("f." \o ToString(FirstFailing))
              /\ out.calls = ElementCalls(FirstFailing)
    /\ (Returned /\ node = ListOfInt /\ value = MixedList /\ before = NullDoc
         /\ registry = Nothing)
           => /\ out.val = Nothing
              /\ out.calls = <<"ctor:int", "ctor:int">>
              /\ PathsOf(collector) = <<"f.2">>
              /\ MessagesAt(collector, "f.2") = <<JStr("Expected type int, got str")>>

\* ["x", "x"] against List[int]: index 0 has its entry, index 1, which would
\* fail as well, was not attempted.
C14_Witness ==
    /\ Returned
    /\ node = ListOfInt
    /\ value = VList(<<VStr("x"), VStr("x")>>)
    /\ registry = Nothing
    /\ out.val = Nothing
    /\ AddedUnder("f.0") = 1
    /\ AddedUnder("f.1") = 0
    /\ out.calls = <<"ctor:int">>

\* C21: validate_list returns nothing when an element fails (or the value is
\* no list), and otherwise a list as long as its input whose element i is
\* the conversion of input element i against the element type; it never
\* returns a shorter list, and the input list is left as it was.
C21_ListAllOrNothing ==
    /\ []((Returned /\ node.origin = "list" /\ node.hasargs /\ Len(node.args) = 1) =>
            IF value.k # "list" \/ FailingIndices # {}
            THEN out.val = Nothing
            ELSE /\ out.val.k = "list"
                 /\ Len(out.val.v) = Len(value.v)
                 /\ \A i \in 0..(Len(value.v) - 1) :
                        out.val.v[i + 1] = ElementAlone(i).val)
    /\ [][pc' = "returned" => value' = value]_vars

\* ["1", 2, "x"] against List[int]: the elements 0 and 1 were converted, yet
\* nothing is returned.
C21_Witness ==
    /\ Returned
    /\ node = ListOfInt
    /\ value = MixedList
    /\ registry = Nothing
    /\ ElementAlone(0).val = VInt(1)
    /\ ElementAlone(1).val = VInt(2)
    /\ out.val = Nothing

\* Is the node a dict with declared key and value types, given a dict?
DictCall == node.origin = "dict" /\ node.hasargs /\ Len(node.args) = 2 /\ value.k = "dict"

\* The key and the value of entry i (1-based), validated on their own.
KeyAlone(i) ==
    validate_and_convert(value.v[i][1], compile_type_schema(node.args[1]), NullDoc,
                         "f", registry)
ValueAlone(i) ==
    validate_and_convert(value.v[i][2], compile_type_schema(node.args[2]), NullDoc,
                         "f", registry)

\* The entries whose key or value fails validation.
FailingEntries ==
    {i \in 1..Len(value.v) : KeyAlone(i).val = Nothing \/ ValueAlone(i).val = Nothing}

FirstFailingEntry == CHOOSE i \in FailingEntries : \A j \in FailingEntries : i <= j

\* C22: the key and the value of every entry of a dict are validated at the
\* path made of the dict's path, a dot and the string form of the key,
\* whether the key is a string or not; the first entry that fails makes the
\* dict fail as a whole, its error being recorded at that path.
C22_DictEntryPath ==
    (Returned /\ DictCall /\ FailingEntries # {}) =>
        /\ out.val = Nothing
        /\ AddedUnder("f." \o PyStr(value.v[FirstFailingEntry][1]).v) > 0

\* {5: 5} against Dict[list, int]: the key fails, and its error is recorded
\* at f.int, the name of the key's type, while nothing is recorded at f.5.
C22_TypeNamePath ==
    /\ Returned
    /\ node = Generic("dict", <<ListPlainType, IntType>>)
    /\ value = VDict(<<<<VInt(5), VInt(5)>>>>)
    /\ out.val = Nothing
    /\ AddedUnder("f.int") = 1
    /\ AddedUnder("f.5") = 0

\* The arity the container family of a declaration requires, 0 where the
\* family fixes none.
RequiredArity(d) ==
    CASE normalize_origin(d.origin) = "dict" -> 2
      [] normalize_origin(d.origin) \in {"list", "set"} -> 1
      [] OTHER -> 0

\* A generic declaration of a container family with another arity.
MalformedArity(d) ==
    /\ d.hasargs
    /\ RequiredArity(d) # 0
    /\ Len(d.args) # RequiredArity(d)

\* The compiled node of the call.
CallSchema == compile_type_schema(node)

\* C25: the compiled node of every call is a container whose args has the
\* arity its kind requires (a dict node two, a list or set node one, a tuple
\* node one per position), or has kind NONE and no args; a declaration of
\* malformed arity compiles to kind NONE; and no call loads an element
\* schema from a node that holds none.
C25_ArgsMatchKind ==
    /\ CallSchema.container_kind = CK_DICT => CallSchema.num_args = 2
    /\ CallSchema.container_kind \in {CK_LIST, CK_SET} => CallSchema.num_args = 1
    /\ CallSchema.container_kind = CK_TUPLE => CallSchema.num_args = Len(node.args)
    /\ CallSchema.container_kind = CK_NONE => CallSchema.num_args = 0
    /\ MalformedArity(node) => CallSchema.container_kind = CK_NONE
    /\ pc # "crashed"

\* set[()] compiles to a set node without args, and validating a set of one
\* element against it loads args[0] through the null pointer.
C25_NullArgsLoad ==
    /\ pc = "crashed"
    /\ node = Generic("set", <<>>)
    /\ CallSchema.container_kind = CK_SET
    /\ CallSchema.num_args = 0
    /\ value = VSet(<<VInt(5)>>)

\* The value the call returned, validated again against the same node with
\* the collector as the call left it.
Revalidated == validate_and_convert(out.val, CallSchema, collector, "f", registry)

\* C28: a value that validate_and_convert returned is accepted by the same
\* node as it is: validating it again succeeds, records nothing, and returns
\* an equal value.
C28_ValidationIdempotent ==
    (Returned /\ out.val # Nothing) =>
        /\ Revalidated.val = out.val
        /\ Revalidated.coll = collector

\* 5 against type[int]: the call returns the class int, and the class int
\* validated again gives the class type.
C28_TypeOfType ==
    /\ Returned
    /\ node = TypeOfInt
    /\ value = VInt(5)
    /\ out.val = VType("int")
    /\ Revalidated.val = VType("type")

\* Is the node a record class, given a mapping?
RecordCall == node.origin = "none" /\ node.name \in ModelNames /\ value.k = "dict"

\* What constructing the record class of the node from the mapping does.
NestedInit == DataModel_init(ClassDecl(node.name), value)

\* C15: a mapping given for a record class is handed to the construction
\* pipeline of the class, once, and nothing else is called for it.  When the
\* construction fails with an ErrorTree, the caller's collector gains one
\* entry per entry of that tree, in the tree's order, keyed by the path, a
\* dot and the nested key, with the nested value as it is; it gains nothing
\* else.  When the construction succeeds the collector is as it was.
C15_NestedTreeIsMerged ==
    (Returned /\ RecordCall) =>
        /\ out.calls = <<"init:" \o node.name>> \o Nest(NestedInit.log)
        /\ NestedInit.rc = 0 =>
               (out.val = VInst(node.name, NestedInit.fields) /\ collector = before)
        /\ (NestedInit.rc # 0 /\ NestedInit.exc.kind = "ErrorTree") =>
               LET nested == NestedInit.exc.msg.members
                   n == Len(before.members)
               IN  /\ out.val = Nothing
                   /\ Len(collector.members) = n + Len(nested)
                   /\ SubSeq(collector.members, 1, n) = before.members
                   /\ \A k \in 1..Len(nested) :
                          collector.members[n + k]
                              = [key |-> "f." \o nested[k].key, val |-> nested[k].val]

\* {"x": "x"} against Pair, a record of two required int fields: the nested
\* tree has the entries x and y, the caller's collector gained f.x and f.y.
C15_Witness ==
    /\ Returned
    /\ node = Plain("Pair")
    /\ value = VDict(<<<<VStr("x"), VStr("x")>>>>)
    /\ before = UsedDoc
    /\ out.val = Nothing
    /\ PathsOf(NestedInit.exc.msg) = <<"x", "y">>
    /\ PathsOf(collector) = <<"f", "f.x", "f.y">>
    /\ MessagesAt(collector, "f.y") = <<JStr("Missing required field")>>

-----------------------------------------------------------------------------
(* Properties of record construction (under Spec).                         *)

\* The field loop is over: every field has had its iteration.
LoopDone == fi > 0 /\ fi > Schema.num_fields /\ pc # "fields"

SomeFieldFailed == \E i \in 1..Len(steps) : steps[i].failed

\* An after-validator stage of this construction has started.
AfterStageRan == \E k \in 1..Len(log) : log[k] \in {"field_after", "model_after"}

\* C3: construction attempts every field in declaration order, and the
\* ErrorTree it surfaces has an entry for every field that failed; with two
\* required fields missing it has exactly two entries.
C3_EveryFailingFieldHasEntry ==
    (pc = "failed" /\ exc.kind = "ErrorTree")
        => /\ Len(steps) = Schema.num_fields
           /\ \A i \in 1..Len(steps) :
                  /\ steps[i].name = Schema.fields[i].field_name
                  /\ steps[i].failed =>
                         EntriesUnder(collector, steps[i].name, 1) > 0
           /\ (\A i \in 1..Len(steps) : steps[i].via = "missing")
                  => Len(exc.msg.members) = Len(steps)

\* Field a failed with an entry, field b failed with none.
C3_FailedFieldWithoutEntry ==
    /\ pc = "failed"
    /\ exc.kind = "ErrorTree"
    /\ Len(steps) = 2
    /\ steps[1].failed /\ EntriesUnder(collector, steps[1].name, 1) > 0
    /\ steps[2].failed /\ EntriesUnder(collector, steps[2].name, 1) = 0

StageRank(e) ==
    IF StartsWith(e, "model_before") THEN 1
    ELSE IF StartsWith(e, "field_before") THEN 2
    ELSE IF StartsWith(e, "field_after") THEN 4
    ELSE IF StartsWith(e, "model_after") THEN 5
    ELSE 3

Ran(stage) == \E k \in 1..Len(log) : log[k] = stage

IsFieldMark(e) == StartsWith(e, "field:")

\* The instance fields of the class under construction, as declared.
Declared == InstanceFields(cls.annotations, 1)

\* C5: the stages of a construction run in the order model-before,
\* field-before, fields in declaration order, field-after, model-after, none
\* starting before the one before it is over; and in a successful
\* construction a validator stage is skipped exactly when its validator set
\* is empty or its flag is off.
C5_StageOrder ==
    /\ \A j, k \in 1..Len(log) : j < k => StageRank(log[j]) <= StageRank(log[k])
    /\ pc = "done" =>
         /\ SelectSeq(log, IsFieldMark)
                = [i \in 1..Len(Declared) |-> "field:" \o Declared[i].name]
         /\ Ran("model_before") <=>
                (cls.has_validators /\ cls.has_model_before
                 /\ cls.validators.model_before # <<>>)
         /\ Ran("field_before") <=>
                (cls.has_validators /\ cls.has_field_before
                 /\ cls.validators.field_before # <<>>)
         /\ Ran("field_after") <=>
                (cls.has_validators /\ cls.has_field_after
                 /\ cls.validators.field_after # <<>>)
         /\ Ran("model_after") <=>
                (cls.has_validators /\ cls.has_model_after
                 /\ cls.validators.model_after # <<>>)

\* A successful construction in which all four validator stages ran.
C5_Witness ==
    /\ pc = "done"
    /\ Ran("model_before") /\ Ran("field_before")
    /\ Ran("field_after") /\ Ran("model_after")
    /\ Len(SelectSeq(log, IsFieldMark)) = 2

\* The validators of the class that raise, as <<log entry, message>>.
RaisingIn(stage, list) ==
    {<<stage \o ":" \o ToString(i), list[i].v.msg>> :
        i \in {i \in 1..Len(list) : list[i].k = "func" /\ list[i].v.mode = "raise"}}

RaisingCalls ==
    RaisingIn("model_before", cls.validators.model_before)
    \cup RaisingIn("model_after", cls.validators.model_after)
    \cup UNION {RaisingIn("field_before:" \o cls.validators.field_before[j][1],
                          cls.validators.field_before[j][2]) :
                    j \in 1..Len(cls.validators.field_before)}
    \cup UNION {RaisingIn("field_after:" \o cls.validators.field_after[j][1],
                          cls.validators.field_after[j][2]) :
                    j \in 1..Len(cls.validators.field_after)}

\* What calling raising validator t surfaces: what it raises, or, for a
\* model-before validator called without the mapping, the error of the call.
Surfaced(t) ==
    IF kwds = Nothing /\ StartsWith(t[1], "model_before")
    THEN "missing argument" ELSE t[2]

\* C6: a validator that raises is the last thing its construction does: no
\* validator and no stage follows it, the construction has failed, and the
\* error surfaced is the validator's own, not an ErrorTree.
C6_ValidatorRaiseAborts ==
    \A k \in 1..Len(log) : \A t \in RaisingCalls :
        log[k] = t[1] => /\ k = Len(log)
                         /\ pc = "failed"
                         /\ exc = Exc("validator", TextMsg(Surfaced(t)))

\* A field-after validator raised, after fields were built without error.
C6_Witness ==
    /\ pc = "failed"
    /\ exc = Exc("validator", TextMsg("fa"))
    /\ Len(log) > 0
    /\ log[Len(log)] = "field_after:a:1"
    /\ ~has_errors(collector)

\* The aliases a field declares, in order.
DeclAliases(fd) ==
    IF fd.attr.k # "fieldobj" THEN <<>>
    ELSE IF fd.attr.v.alias.k = "str" THEN <<fd.attr.v.alias>>
    ELSE IF fd.attr.v.alias.k = "list" THEN fd.attr.v.alias.v
    ELSE <<>>

\* The positions of the declared aliases that are keys of the input.
PresentAliases(fd) ==
    IF kwds = Nothing THEN {}
    ELSE {j \in 1..Len(DeclAliases(fd)) : DictHas(kwds.v, DeclAliases(fd)[j])}

CanonicalPresent(fd) == kwds # Nothing /\ DictHas(kwds.v, VStr(fd.name))

Absent(fd) == PresentAliases(fd) = {} /\ ~CanonicalPresent(fd)

\* The default factory and fixed default a field declares.
DeclFactory(fd) ==
    IF fd.attr.k = "fieldobj" /\ fd.attr.v.default_factory.k = "func"
    THEN fd.attr.v.default_factory ELSE Nothing

DeclDefault(fd) ==
    IF fd.attr = Nothing THEN VLDTUndefined
    ELSE IF fd.attr.k = "fieldobj" THEN fd.attr.v.default
    ELSE fd.attr

DeclOptional(fd) ==
    IsUnion(fd.type) /\ \E i \in 1..Len(fd.type.args) : fd.type.args[i] = NoneTypeT

\* C7: a field absent from the input under every alias and its name takes
\* the result of its default factory (a failing factory records one error
\* and the field is not validated), else its fixed default, else null when
\* its type is optional, else records the one error "Missing required
\* field"; no compiled field has a factory and a fixed default at once.
C7_MissingFieldResolution ==
    /\ \A i \in 1..Len(steps) :
         LET st == steps[i]
             fd == Declared[i]
         IN  Absent(fd) =>
               IF DeclFactory(fd) # Nothing
               THEN /\ st.via = "factory"
                    /\ IF DeclFactory(fd).v.mode = "raise"
                       THEN st.failed /\ ~st.validated /\ st.added = 1
                       ELSE st.validated /\ st.value = DeclFactory(fd).v.ret
               ELSE IF DeclDefault(fd) # VLDTUndefined
               THEN st.via = "default" /\ st.validated /\ st.value = DeclDefault(fd)
               ELSE IF DeclOptional(fd)
               THEN st.via = "optional" /\ st.validated /\ st.value = None
                    /\ st.stored = None /\ ~st.failed
               ELSE /\ st.via = "missing" /\ st.failed /\ ~st.validated
                    /\ st.added = 1
                    /\ HasMember(collector, fd.name)
                    /\ collector.members[MemberIndex(collector, fd.name)].val
                           = JStr("Missing required field")
    /\ pc \notin {"start", "failed"} =>
         \A i \in 1..Schema.num_fields :
             ~(Schema.fields[i].default_factory # None
               /\ Schema.fields[i].default_value # VLDTUndefined)

\* A field declared with both a factory and a fixed default, absent from the
\* input, took the factory's value.
C7_Witness ==
    \E i \in 1..Len(steps) :
        /\ Absent(Declared[i])
        /\ DeclFactory(Declared[i]) # Nothing
        /\ DeclDefault(Declared[i]) = VInt(7)
        /\ steps[i].via = "factory"
        /\ steps[i].value = VInt(9)

\* C8: the value of a field is that of the first declared alias that is a
\* key of the input, and that of the canonical name only when no alias is;
\* it is the value validated and stored.
C8_AliasPrecedence ==
    \A i \in 1..Len(steps) :
        LET st == steps[i]
            fd == Declared[i]
            P == PresentAliases(fd)
            first == CHOOSE j \in P : \A m \in P : j <= m
            chosen == IF P # {} THEN DictGet(kwds.v, DeclAliases(fd)[first])
                      ELSE DictGet(kwds.v, VStr(fd.name))
        IN  ~Absent(fd) =>
              /\ st.via = (IF P # {} THEN "alias:" \o ToString(first) ELSE "name")
              /\ st.validated
              /\ st.value = chosen
              /\ (~st.failed /\ fd.type = IntType /\ chosen.k = "int") => st.stored = chosen

\* Alias x and the canonical name a were both given: the alias value was
\* validated and stored.
C8_Witness ==
    /\ Len(steps) > 0
    /\ DeclAliases(Declared[1]) = <<VStr("x")>>
    /\ CanonicalPresent(Declared[1])
    /\ steps[1].via = "alias:1"
    /\ steps[1].value = VInt(6)
    /\ steps[1].stored = VInt(6)

\* C12: null given for a field of optional type is stored as null, the
\* field does not fail and nothing is recorded for it, whatever the other
\* alternatives of the type and whatever defaults the field declares; and a
\* field of optional type that is absent from the input, with no default
\* factory and no fixed default, is stored as null in the same way.
C12_NullForOptional ==
    \A i \in 1..Len(steps) :
        LET st == steps[i]
            fd == Declared[i]
        IN  DeclOptional(fd) =>
              /\ (st.validated /\ st.value = None)
                     => (~st.failed /\ st.stored = None /\ st.added = 0)
              /\ (Absent(fd) /\ DeclFactory(fd) = Nothing
                  /\ DeclDefault(fd) = VLDTUndefined)
                     => /\ st.via = "optional"
                        /\ st.value = None
                        /\ st.stored = None
                        /\ ~st.failed
                        /\ st.added = 0

\* Model(a=None) with a: Optional[List[int]] and b: Optional[int] and no
\* defaults: a was given null, b was absent, both are stored as null.
C12_Witness ==
    /\ pc = "done"
    /\ Len(steps) = 2
    /\ Declared[1].type = OptListOfInt /\ Declared[2].type = OptInt
    /\ steps[1].via = "name" /\ steps[1].value = None /\ steps[1].stored = None
    /\ steps[2].via = "optional" /\ steps[2].stored = None
    /\ ~has_errors(collector)

-----------------------------------------------------------------------------
(* Properties of nested failures in record construction (under Spec).      *)

\* What constructing the record class of field n from the mapping given for
\* it does.
NestedFieldInit(n) ==
    DataModel_init(ClassDecl(Schema.fields[n].type_schema.expected_type.name),
                   steps[n].value)

\* Field n is a nested record given as a mapping, and its construction
\* failed with a message that is no rendered ErrorTree.
NestedPlainFailure(n) ==
    /\ Schema.fields[n].type_schema.is_data_model
    /\ steps[n].validated
    /\ steps[n].value.k = "dict"
    /\ NestedFieldInit(n).rc = -1
    /\ ~ParseObject(NestedFieldInit(n).exc.msg).ok

\* C24: when the nested construction of a field fails with a message that
\* does not parse as a rendered ErrorTree, the collector gains the one
\* message "Invalid suberror JSON" at the field's path and nothing below it;
\* the construction does not crash: the field loop goes on with the fields
\* that remain and ends in the ErrorTree failure that reports them all.
C24_UnparsableSuberror ==
    \A n \in 1..Len(steps) :
        NestedPlainFailure(n) =>
            /\ steps[n].failed
            /\ steps[n].added = 1
            /\ MessagesAt(collector, steps[n].name) = <<JStr("Invalid suberror JSON")>>
            /\ \A i \in 1..Len(collector.members) :
                   ~StartsWith(collector.members[i].key, steps[n].name \o ".")
            /\ \/ pc = "fields"
               \/ /\ pc = "failed"
                  /\ exc.kind = "ErrorTree"
                  /\ Len(steps) = Schema.num_fields

\* Field a, a nested record whose validator raised "boom", has the generic
\* error; field b was validated after it and has its own.
C24_Witness ==
    /\ pc = "failed"
    /\ cls = NestedFirst
    /\ Len(steps) = 2
    /\ NestedPlainFailure(1)
    /\ NestedFieldInit(1).exc.msg = TextMsg("boom")
    /\ steps[2].validated
    /\ PathsOf(exc.msg) = <<"a", "b">>
    /\ MessagesAt(collector, "a") = <<JStr("Invalid suberror JSON")>>

-----------------------------------------------------------------------------
(* Properties of the ErrorCollector (under SpecErr).                       *)

\* The messages of the calls made for path, in call order.
RECURSIVE AddedFor(_, _)
AddedFor(path, i) ==
    IF i > Len(steps) THEN <<>>
    ELSE (IF steps[i][1] = path THEN <<JStr(steps[i][2])>> ELSE <<>>)
         \o AddedFor(path, i + 1)

\* The paths of the calls made, each at its first occurrence.
RECURSIVE FirstOccurrences(_)
FirstOccurrences(i) ==
    IF i = 0 THEN <<>>
    ELSE IF \E j \in 1..(i - 1) : steps[j][1] = steps[i][1]
    THEN FirstOccurrences(i - 1)
    ELSE Append(FirstOccurrences(i - 1), steps[i][1])

\* C16: after any sequence of add_error calls the collector holds, for every
\* path, exactly the messages added for it, in call order: no member when
\* there is none, a scalar when there is one, an array when there are two or
\* more; has_errors() is true exactly when a message was added; and to_json
\* lists the paths in the order of their first occurrence.
C16_CollectorKeepsMessages ==
    pc = "collecting" =>
        /\ \A path \in ErrorPaths :
               LET added == AddedFor(path, 1)
               IN  IF added = <<>> THEN ~HasMember(collector, path)
                   ELSE /\ HasMember(collector, path)
                        /\ collector.members[MemberIndex(collector, path)].val
                               = (IF Len(added) = 1 THEN added[1] ELSE JArr(added))
        /\ has_errors(collector) <=> steps # <<>>
        /\ has_errors(collector) <=> Len(to_json(collector).members) > 0
        /\ PathsOf(to_json(collector)) = FirstOccurrences(Len(steps))

\* b, a, b, a were added in turn: both entries are arrays of two, b first.
C16_Witness ==
    /\ pc = "collecting"
    /\ steps = <<<<"b", "m1">>, <<"a", "m1">>, <<"b", "m2">>, <<"a", "m1">>>>
    /\ PathsOf(collector) = <<"b", "a">>
    /\ MessagesAt(collector, "b") = <<JStr("m1"), JStr("m2")>>
    /\ MessagesAt(collector, "a") = <<JStr("m1"), JStr("m1")>>

-----------------------------------------------------------------------------
\* add_suberror has been called, with the path and the payload it was given.
Merged == pc = "merged"
MergePath == steps[Len(steps)][1]
MergePayload == exc.msg

\* The messages of a JSON value, arrays read as sequences.
MessagesOf(val) == IF val.t = "a" THEN val.a ELSE <<val>>

\* Is every entry of the collector one message or a sequence of messages?
IsErrorTree(c) ==
    \A i \in 1..Len(c.members) :
        \A n \in 1..Len(MessagesOf(c.members[i].val)) :
            MessagesOf(c.members[i].val)[n].t = "s"

\* C23: add_suberror(path, tree) leaves under path.k, for every key k of the
\* tree, the messages the collector held there followed by the messages of
\* the tree's entry, as one flat sequence; every other entry is as it was.
C23_SuberrorMergesFlat ==
    (Merged /\ ParseObject(MergePayload).ok) =>
        LET members == ParseObject(MergePayload).members
        IN  /\ \A i \in 1..Len(members) :
                   MessagesAt(collector, MergePath \o "." \o members[i].key)
                       = MessagesAt(before, MergePath \o "." \o members[i].key)
                         \o MessagesOf(members[i].val)
            /\ \A j \in 1..Len(before.members) :
                   (\A i \in 1..Len(members) :
                        before.members[j].key # MergePath \o "." \o members[i].key)
                       => MessagesAt(collector, before.members[j].key)
                              = MessagesAt(before, before.members[j].key)
            /\ IsErrorTree(collector)

\* A tree whose entry 0 holds two messages, merged under a into a collector
\* that holds a message at a.0: the entry a.0 is an array whose second
\* element is itself an array.
C23_NestedArray ==
    /\ Merged
    /\ MergePath = "a"
    /\ MessagesAt(before, "a.0") = <<JStr("m1")>>
    /\ MessagesAt(collector, "a.0") = <<JStr("m1"), JArr(<<JStr("n1"), JStr("n2")>>)>>

(* Properties of the schema slot (under SpecConc).                         *)

\* The threads that have come back from get_schema_cached with a capsule.
Callers == {t \in Threads : cache.pc[t] \in {"returned", "using", "done", "crashed"}}

\* C17: whatever the interleaving of the first uses of a class, one capsule
\* at most is ever stored into the slot (so none is replaced), and every
\* caller goes on with the capsule the slot holds.
C17_SinglePublishedSchema ==
    pc = "threads" =>
        /\ Len(cache.published) <= 1
        /\ \A t \in Callers : cache.capsule[t] = cache.slot

\* Two threads found the slot empty and each stored its own capsule: the
\* first works through a capsule that was replaced and destroyed.
C17_Replaced ==
    /\ pc = "threads"
    /\ \E t, u \in Callers :
           /\ cache.published = <<cache.capsule[t], cache.capsule[u]>>
           /\ cache.capsule[t] # cache.capsule[u]
           /\ cache.slot = cache.capsule[u]
           /\ cache.pc[t] = "using"
           /\ cache.capsule[t] \in cache.freed

\* The threads that read through the SchemaCache pointer they took out of
\* their capsule.
Readers == {t \in Threads : cache.pc[t] = "using"}

\* C27: in every interleaving, the capsule of a caller that reads its schema
\* is the one the slot holds, is still referenced and was not destroyed,
\* and no read goes through a dangling pointer.
C27_SchemaOutlivesReaders ==
    pc = "threads" =>
        /\ \A t \in Readers :
               /\ cache.capsule[t] \notin cache.freed
               /\ cache.refs[cache.capsule[t]] > 0
               /\ cache.slot = cache.capsule[t]
        /\ \A t \in Threads : cache.pc[t] # "crashed"

\* A thread read through the pointer of a capsule that a later publish had
\* replaced in the slot: the capsule's only other reference was the
\* caller's, released before the read, and the read crashed.
C27_DanglingRead ==
    /\ pc = "threads"
    /\ \E t \in Threads :
           /\ cache.pc[t] = "crashed"
           /\ cache.capsule[t] \in cache.freed
           /\ cache.refs[cache.capsule[t]] = 0
           /\ cache.slot # cache.capsule[t]
           /\ Len(cache.published) >= 2

-----------------------------------------------------------------------------
(* Properties of the value-tree codec (under SpecCodec).                   *)

\* to_dict has returned a mapping for the instance from_dict built.
Rendered == pc = "done" /\ codec.dict.called /\ codec.dict.val # Nothing

KeySet(d) == {d[i][1] : i \in 1..Len(d)}

\* The declared field a key of the input names, 0 when it names none.
FieldNamed(key) ==
    IF \E i \in 1..Schema.num_fields : VStr(Schema.fields[i].field_name) = key
    THEN CHOOSE i \in 1..Schema.num_fields : VStr(Schema.fields[i].field_name) = key
    ELSE 0

\* The coerced form of the input value v for field i, as a value tree.
CoercedForm(i, v) ==
    convert_to_dict(
        validate_and_convert(v, Schema.fields[i].type_schema, NullDoc,
                             Schema.fields[i].field_name, Schema.deserializers).val,
        None)

PlainRoundTrip ==
    /\ Schema.validators = NoValidators
    /\ \A n \in 1..Len(steps) : ~steps[n].failed
    /\ Schema.dict_serializer = None
    /\ \A i \in 1..Schema.num_fields : Schema.fields[i].alias \in {Nothing, None}
    /\ KeySet(codec.given.v) =
           {VStr(Schema.fields[i].field_name) : i \in 1..Schema.num_fields}

CopyCalled == pc = "done" /\ codec.copy.called

\* The source holds a value whose own __deepcopy__ raises.
SomeCopyRaises ==
    \E n \in 1..Len(fields) : fields[n][2].k = "object" /\ fields[n][2].v = "raise"

\* What the copy holds, given that it was made.
CopyMatchesSource ==
    LET dst == codec.copy.val.v
    IN  /\ codec.copy.cls = cls.name
        /\ [n \in 1..Len(dst) |-> dst[n].name] = [n \in 1..Len(fields) |-> fields[n][1]]
        /\ \A n \in 1..Len(dst) :
               /\ dst[n].val = fields[n][2]
               /\ IF HasDeepcopy(fields[n][2])
                  THEN dst[n].addr \notin 1..Len(fields)
                  ELSE dst[n].addr = n

\* C19: __deepcopy__ returns a new instance of the source's type holding
\* the same field names; a value that has a __deepcopy__ of its own is
\* replaced by what that returns (a new object), any other value is the
\* very object the source holds; the copy fails only when a value's own
\* __deepcopy__ raises; the call leaves the source's fields alone and runs
\* no validator.
C19_DeepCopy ==
    /\ [](CopyCalled =>
            /\ codec.copy.val = Nothing <=> SomeCopyRaises
            /\ codec.copy.val # Nothing => CopyMatchesSource)
    /\ [][codec'.copy # codec.copy =>
            fields' = fields /\ log' = log /\ kwds' = kwds /\ collector' = collector]_vars

\* A copy that shares a list with its source and holds a new object in
\* place of a nested record.
C19_Witness ==
    /\ CopyCalled
    /\ codec.copy.val # Nothing
    /\ \E n, m \in 1..Len(fields) :
           /\ fields[n][2].k = "list"
           /\ codec.copy.val.v[n].addr = n
           /\ fields[m][2].k = "inst"
           /\ codec.copy.val.v[m].addr \notin 1..Len(fields)

-----------------------------------------------------------------------------
(* Properties of schema compilation (under SpecSchema).                    *)

\* The number of declarations in a type expression.
RECURSIVE TypeNodes(_)
RECURSIVE ArgNodes(_, _)
ArgNodes(args, i) ==
    IF i > Len(args) THEN 0 ELSE TypeNodes(args[i]) + ArgNodes(args, i + 1)
TypeNodes(d) == 1 + ArgNodes(d.args, 1)

\* The number of declarations in the annotations of the instance fields.
RECURSIVE AnnotationNodes(_, _)
AnnotationNodes(fds, i) ==
    IF i > Len(fds) THEN 0 ELSE TypeNodes(fds[i].type) + AnnotationNodes(fds, i + 1)

\* C26: compiling the schema of a class comes to its end, for a record
\* whose field types name the record itself (alone, in a container, or
\* through another record) as for any other; it enters compile_type_schema
\* once per declaration written in the annotations of the class, never
\* more, and a field that names a record is compiled as one leaf.
C26_CompilationTerminates ==
    /\ [](Len(log) <= AnnotationNodes(InstanceFields(cls.annotations, 1), 1))
    /\ [](pc = "compiled" =>
            /\ Len(log) = AnnotationNodes(InstanceFields(cls.annotations, 1), 1)
            /\ out.val.k = "schema"
            /\ \A i \in 1..out.val.num_fields :
                   out.val.fields[i].type_schema.is_data_model =>
                       out.val.fields[i].type_schema.num_args = 0)
    /\ <>(pc \in {"compiled", "failed"})

\* Node, whose fields are Optional[Node], List[Node] and int, is compiled in
\* six calls.
C26_Witness ==
    /\ pc = "compiled"
    /\ cls = NodeDecl
    /\ Len(log) = 6
    /\ log[2] = "compile_type_schema:Node"
    /\ log[5] = "compile_type_schema:Node"
    /\ out.val.num_fields = 3

-----------------------------------------------------------------------------
(* Properties of attribute assignment (under SpecAttr).                    *)

\* The declarations of the instance fields of the class.
DeclaredFields == InstanceFields(cls.annotations, 1)

\* What validate_and_convert makes of a value given for field fd.
FieldOutput(fd, value_) ==
    validate_and_convert(value_, compile_type_schema(fd.type), NullDoc, fd.name,
                         Schema.deserializers)

\* Is the value stored for field fd an output of validate_and_convert for
\* the declared type?  The declared types here return their outputs as they
\* are, so an output is a value the field accepts unchanged.
StoredIsOutput(fs_, fd) ==
    /\ FieldHas(fs_, fd.name)
    /\ FieldOutput(fd, FieldGet(fs_, fd.name)).val = FieldGet(fs_, fd.name)

\* Every declared field of the instance holds an output.
InstanceValid ==
    \A i \in 1..Len(DeclaredFields) : StoredIsOutput(fields, DeclaredFields[i])

\* An assignment to a declared field stores the converted value when the
\* value is accepted, and otherwise raises and leaves the fields as they
\* were.
AssignmentValidates ==
    (pc = "done" /\ pc' = "done") =>
        \A i \in 1..Len(DeclaredFields) :
            out'.name = DeclaredFields[i].name =>
                IF FieldOutput(DeclaredFields[i], out'.val).val # Nothing
                THEN /\ out'.rc = 0
                     /\ fields' = FieldSet(fields, out'.name,
                                           FieldOutput(DeclaredFields[i], out'.val).val)
                ELSE /\ out'.rc = -1
                     /\ exc' # NoExc
                     /\ fields' = fields

\* What the field-after stage stores for a declared field is an output.
FieldAfterValidates ==
    (pc = "field_after" /\ pc' = "model_after") =>
        \A i \in 1..Len(DeclaredFields) :
            \/ FieldGet(fields', DeclaredFields[i].name)
                   = FieldGet(fields, DeclaredFields[i].name)
            \/ StoredIsOutput(fields', DeclaredFields[i])

C29_AssignmentPath ==
    /\ [][AssignmentValidates]_vars
    /\ [][FieldAfterValidates]_vars
    /\ []((pc = "done" /\ \A n \in 1..Len(steps) : ~steps[n].failed) => InstanceValid)

-----------------------------------------------------------------------------
(* Properties of the field-before stage (under Spec).                      *)

\* The entries of the field-before validators of the class, as <<key, chain>>.
FieldBeforeEntries == Schema.validators.field_before

\* Did the step call a validator of the chain keyed f?
ChainRan(f) ==
    \E n \in (Len(log) + 1)..Len(log') :
        StartsWith(log'[n], "field_before:" \o f \o ":")

\* The field-before stage of a class that has such validators, given a
\* mapping.
FieldBeforeStage ==
    /\ pc = "field_before"
    /\ pc' # pc
    /\ Schema # Nothing
    /\ Schema.has_field_before
    /\ kwds # Nothing

\* What the stage does with the mapping: a chain runs for the keys the
\* mapping has and for no other, its result replaces the value under that
\* key, and every other key, an alias among them, keeps its value.
FieldBeforeByName ==
    FieldBeforeStage =>
        /\ \A j \in 1..Len(FieldBeforeEntries) :
               LET f == FieldBeforeEntries[j][1]
               IN  IF DictHas(kwds.v, VStr(f))
                   THEN pc' = "fields" =>
                          /\ ChainRan(f)
                          /\ DictGet(kwds'.v, VStr(f))
                               = run_validator_chain("", FieldBeforeEntries[j][2], 1,
                                                     DictGet(kwds.v, VStr(f)), <<>>).val
                   ELSE /\ ~ChainRan(f)
                        /\ ~DictHas(kwds'.v, VStr(f))
        /\ \A i \in 1..Len(kwds.v) :
               (\A j \in 1..Len(FieldBeforeEntries) :
                    kwds.v[i][1] # VStr(FieldBeforeEntries[j][1]))
                   => DictGet(kwds'.v, kwds.v[i][1]) = kwds.v[i][2]
        /\ Len(kwds'.v) = Len(kwds.v)

\* The input mapping does not change once the field-before stage is over.
InputSettled == (pc \in {"fields", "field_after", "model_after"}) => kwds' = kwds

\* A field given under an alias is coerced from the value under its first
\* present alias, whether the canonical name is a key as well or not.
AliasValueCoerced ==
    \A i \in 1..Len(steps) :
        PresentAliases(Declared[i]) # {} =>
            /\ steps[i].validated
            /\ steps[i].value =
                 DictGet(kwds.v, DeclAliases(Declared[i])[
                     CHOOSE j \in PresentAliases(Declared[i]) :
                         \A m \in PresentAliases(Declared[i]) : j <= m])

\* C30: a field-before validator chain keyed by the field name f runs exactly
\* when f is a key of the input mapping, and its result is written back
\* under f; it does not run for a value given only under an alias, and when
\* an alias and f are both keys the alias value, which no chain has touched,
\* is the one that is coerced.
C30_FieldBeforeKeyedByName ==
    /\ [][FieldBeforeByName]_vars
    /\ [][InputSettled]_vars
    /\ []AliasValueCoerced

\* x = 2 and a = 1 were given for field a with alias x and a validator that
\* returns 5: the chain ran on a and left 5 under a, and 2 was coerced and
\* stored.
C30_Witness ==
    /\ pc = "done"
    /\ DeclAliases(Declared[1]) = <<VStr("x")>>
    /\ FieldBeforeEntries = <<<<"a", <<Returns(VInt(5))>>>>>>
    /\ DictGet(kwds.v, VStr("a")) = VInt(5)
    /\ DictGet(kwds.v, VStr("x")) = VInt(2)
    /\ \E n \in 1..Len(log) : log[n] = "field_before:a:1"
    /\ steps[1].via = "alias:1"
    /\ steps[1].value = VInt(2)
    /\ FieldGet(fields, "a") = VInt(2)

====
